---- MODULE Spec2Model ----
(***************************************************************************)
(* A model of the address parser of pkg/parser: the input guard            *)
(* (validators.go), the decomposers and the location router (parser.go)    *)
(* and the result types (types.go).                                        *)
(*                                                                         *)
(* A Go string is modelled as a sequence of bytes.  A byte is a            *)
(* one-character TLA+ string, or one of the named bytes below.             *)
(***************************************************************************)
EXTENDS Integers, Sequences, FiniteSets, TLC

\* ------------------------------------------------------------------ bytes

NUL == "<00>"
\* Bytes outside ASCII: 0xC3 leads a two-byte UTF-8 sequence (0xC3 0xA9 is U+00E9,
\* 0xC3 0x89 its upper case U+00C9), 0xEF leads a three-byte one (0xEF 0xBF 0xBD
\* is U+FFFD, utf8.RuneError), 0xFF occurs in no UTF-8 text.
ByteC3 == "<C3>"
ByteA9 == "<A9>"
Byte89 == "<89>"
ByteEF == "<EF>"
ByteBF == "<BF>"
ByteBD == "<BD>"
ByteFF == "<FF>"
ContinuationSet == { ByteA9, Byte89, ByteBF, ByteBD }
NonASCIISet == ContinuationSet \cup { ByteC3, ByteEF, ByteFF }
RuneError == << ByteEF, ByteBF, ByteBD >>

UpperSeq == << "A", "B", "C", "D", "E", "F", "G", "H", "I", "J", "K", "L", "M",
               "N", "O", "P", "Q", "R", "S", "T", "U", "V", "W", "X", "Y", "Z" >>
LowerSeq == << "a", "b", "c", "d", "e", "f", "g", "h", "i", "j", "k", "l", "m",
               "n", "o", "p", "q", "r", "s", "t", "u", "v", "w", "x", "y", "z" >>
UpperSet == { UpperSeq[i] : i \in 1..26 }
LowerSet == { LowerSeq[i] : i \in 1..26 }
DigitSet == { "0", "1", "2", "3", "4", "5", "6", "7", "8", "9" }

LowerOf == [ c \in UpperSet |-> LowerSeq[CHOOSE i \in 1..26 : UpperSeq[i] = c] ]
UpperOf == [ c \in LowerSet |-> UpperSeq[CHOOSE i \in 1..26 : LowerSeq[i] = c] ]

\* unicode.ToLower / unicode.ToUpper on an ASCII byte
ToLowerByte(c) == IF c \in UpperSet THEN LowerOf[c] ELSE c
ToUpperByte(c) == IF c \in LowerSet THEN UpperOf[c] ELSE c

IsCont(s, i) == i \in 1..Len(s) /\ s[i] \in ContinuationSet
\* the width of the UTF-8 sequence that starts at position i, 0 if none does
RuneWidth(s, i) ==
    IF s[i] \notin NonASCIISet THEN 1
    ELSE IF s[i] = ByteC3 /\ IsCont(s, i + 1) THEN 2
    ELSE IF s[i] = ByteEF /\ IsCont(s, i + 1) /\ IsCont(s, i + 2) THEN 3
    ELSE 0

\* unicode.ToUpper / unicode.ToLower on the two-byte runes of the model
MapRune2(b, upper) ==
    IF upper /\ b = ByteA9 THEN Byte89
    ELSE IF ~upper /\ b = Byte89 THEN ByteA9
    ELSE b

\* a continuation byte that belongs to the lead byte before it
Consumed(s, i) ==
    /\ IsCont(s, i)
    /\ \/ (i > 1 /\ s[i-1] = ByteC3)
       \/ (i > 1 /\ s[i-1] = ByteEF /\ IsCont(s, i + 1))
       \/ (i > 2 /\ s[i-2] = ByteEF /\ IsCont(s, i - 1))

\* what strings.Map writes for the rune that starts at position i: a byte that
\* starts no UTF-8 sequence is written as utf8.RuneError
MapRune(s, i, upper) ==
    IF Consumed(s, i) THEN << >>
    ELSE LET w == RuneWidth(s, i)
         IN  CASE w = 1 -> << IF upper THEN ToUpperByte(s[i]) ELSE ToLowerByte(s[i]) >>
               [] w = 2 -> << s[i], MapRune2(s[i + 1], upper) >>
               [] w = 3 -> SubSeq(s, i, i + 2)
               [] w = 0 -> RuneError

RECURSIVE Concat(_, _, _)
\* pieces[lo] \o ... \o pieces[hi]
Concat(pieces, lo, hi) ==
    IF lo > hi THEN << >>
    ELSE IF lo = hi THEN pieces[lo]
    ELSE Concat(pieces, lo, (lo + hi) \div 2) \o Concat(pieces, (lo + hi) \div 2 + 1, hi)

\* strings.Map(unicode.ToUpper | unicode.ToLower, s)
MapCase(s, upper) == Concat([ i \in 1..Len(s) |-> MapRune(s, i, upper) ], 1, Len(s))

IsASCII(s) == \A i \in 1..Len(s) : s[i] \notin NonASCIISet

\* strings.ToLower / strings.ToUpper
ToLower(s) == IF IsASCII(s) THEN [ i \in 1..Len(s) |-> ToLowerByte(s[i]) ]
              ELSE MapCase(s, FALSE)
ToUpper(s) == IF IsASCII(s) THEN [ i \in 1..Len(s) |-> ToUpperByte(s[i]) ]
              ELSE MapCase(s, TRUE)

\* the regexp classes \d, \w and \s (ASCII), and unicode.IsSpace
IsDigit(c) == c \in DigitSet
IsLetter(c) == c \in UpperSet \/ c \in LowerSet
IsWord(c) == IsLetter(c) \/ IsDigit(c) \/ c = "_"
IsSpace(c) == c \in { " ", "\t", "\n", "\r", "\f" }

Min(S) == CHOOSE x \in S : \A y \in S : x <= y
Max(S) == CHOOSE x \in S : \A y \in S : x >= y

\* a local variable of the code: Body with its parameter bound to value
Let(value, Body(_)) == Body(value)

RECURSIVE SortedSeq(_)
\* the elements of a finite set of integers in increasing order
SortedSeq(S) == IF S = {} THEN << >>
                ELSE LET m == Min(S) IN << m >> \o SortedSeq(S \ { m })

\* ---------------------------------------------------------- package strings

\* s[from:to] of Go, on 1-based positions from..to inclusive
Slice(s, from, to) == IF from > to THEN << >> ELSE SubSeq(s, from, to)

\* strings.TrimSpace
TrimSpace(s) ==
    LET keep == { i \in 1..Len(s) : ~IsSpace(s[i]) }
    IN  IF keep = {} THEN << >> ELSE SubSeq(s, Min(keep), Max(keep))

\* strings.Trim(s, cutset) for a one-byte cutset
Trim(s, c) ==
    LET keep == { i \in 1..Len(s) : s[i] # c }
    IN  IF keep = {} THEN << >> ELSE SubSeq(s, Min(keep), Max(keep))

\* strings.Fields: the maximal runs of non-space bytes, in order
Fields(s) ==
    LET n      == Len(s)
        starts == SortedSeq({ i \in 1..n : ~IsSpace(s[i]) /\ (i = 1 \/ IsSpace(s[i-1])) })
        ends   == SortedSeq({ i \in 1..n : ~IsSpace(s[i]) /\ (i = n \/ IsSpace(s[i+1])) })
    IN  [ k \in 1..Len(starts) |-> SubSeq(s, starts[k], ends[k]) ]

\* strings.Split(s, sep) for a one-byte separator: always at least one part
Split(s, sep) ==
    LET n    == Len(s)
        cuts == SortedSeq({ i \in 1..n : s[i] = sep })
        m    == Len(cuts)
        from(k) == IF k = 1 THEN 1 ELSE cuts[k-1] + 1
        to(k)   == IF k = m + 1 THEN n ELSE cuts[k] - 1
    IN  [ k \in 1..(m + 1) |-> Slice(s, from(k), to(k)) ]

RECURSIVE Join(_, _)
\* strings.Join
Join(parts, sep) ==
    IF Len(parts) = 0 THEN << >>
    ELSE IF Len(parts) = 1 THEN parts[1]
    ELSE parts[1] \o sep \o Join(Tail(parts), sep)

\* strings.ReplaceAll(s, old, "") for a one-byte old
RemoveByte(s, c) == SelectSeq(s, LAMBDA b : b # c)

\* utf8.ValidString over the bytes of the model: every lead byte has its
\* continuation bytes, and every continuation byte belongs to a lead byte
ValidString(s) ==
    \A i \in 1..Len(s) :
        /\ s[i] # ByteFF
        /\ s[i] = ByteC3 => IsCont(s, i + 1)
        /\ s[i] = ByteEF => (IsCont(s, i + 1) /\ IsCont(s, i + 2))
        /\ IsCont(s, i) =>
              \/ (i > 1 /\ s[i-1] \in { ByteC3, ByteEF })
              \/ (i > 2 /\ s[i-2] = ByteEF /\ IsCont(s, i - 1))

\* -------------------------------------------------------------- validators.go

MaxInputLength == 10000
MaxAddressLength == 500

NoError == [ kind |-> "nil", text |-> << >> ]

\* errors.New(text) of the four sentinel errors
ErrInputTooLong == [ kind |-> "ErrInputTooLong", text |-> << "input exceeds maximum allowed length" >> ]
ErrInputEmpty == [ kind |-> "ErrInputEmpty", text |-> << "input is empty" >> ]
ErrInvalidCharacters == [ kind |-> "ErrInvalidCharacters", text |-> << "input contains invalid characters" >> ]
ErrInvalidUTF8 == [ kind |-> "ErrInvalidUTF8", text |-> << "input is not valid UTF-8" >> ]

\* fmt.Errorf("%w: %d bytes (max %d)", err, n, max): wraps err, so errors.Is(_, err)
Wrap(err, n, max) == [ kind |-> err.kind, text |-> err.text \o << ": ", n, " bytes (max ", max, ")" >> ]

\* ValidateInput with the length test written >= : the cap itself is refused
ValidateInputBelowCap(input) ==
    IF input = << >> THEN ErrInputEmpty
    ELSE IF ~ValidString(input) THEN ErrInvalidUTF8
    ELSE IF Len(input) >= MaxInputLength THEN Wrap(ErrInputTooLong, Len(input), MaxInputLength)
    ELSE IF \E i \in 1..Len(input) : input[i] = NUL THEN ErrInvalidCharacters
    ELSE NoError

\* ValidateInput with the length test before the encoding test
ValidateInputLengthFirst(input) ==
    IF input = << >> THEN ErrInputEmpty
    ELSE IF Len(input) > MaxInputLength THEN Wrap(ErrInputTooLong, Len(input), MaxInputLength)
    ELSE IF ~ValidString(input) THEN ErrInvalidUTF8
    ELSE IF \E i \in 1..Len(input) : input[i] = NUL THEN ErrInvalidCharacters
    ELSE NoError

ValidateInput(input) ==
    IF input = << >> THEN ErrInputEmpty
    ELSE IF ~ValidString(input) THEN ErrInvalidUTF8
    ELSE IF Len(input) > MaxInputLength THEN Wrap(ErrInputTooLong, Len(input), MaxInputLength)
    ELSE IF \E i \in 1..Len(input) : input[i] = NUL THEN ErrInvalidCharacters
    ELSE NoError

SanitizeInput(input) ==
    LET noNul   == RemoveByte(input, NUL)
        spaced  == Join(Fields(noNul), << " " >>)
        trimmed == TrimSpace(spaced)
    IN  IF Len(trimmed) > MaxAddressLength
        THEN SubSeq(trimmed, 1, MaxAddressLength)
        ELSE trimmed

\* (sanitized, err)
ValidateAndSanitize(input) ==
    LET err == ValidateInput(input)
    IN  IF err # NoError THEN << << >>, err >> ELSE << SanitizeInput(input), NoError >>

\* ------------------------------------------------------------ package regexp

\* a match: the positions start..end-1 of the text, and its capture groups
NoMatch == [ start |-> 0, end |-> 0, groups |-> << >> ]
Matched(m) == m.start # 0

WordAt(s, i) == i \in 1..Len(s) /\ IsWord(s[i])
\* \b between positions i-1 and i
Boundary(s, i) == WordAt(s, i - 1) # WordAt(s, i)

\* the literal lit (lower case) at position i, under (?i)
LitAt(s, i, word) ==
    /\ i >= 1
    /\ i + Len(word) - 1 <= Len(s)
    /\ \A k \in 1..Len(word) : ToLowerByte(s[i + k - 1]) = word[k]

\* the classes \W, [a-z0-9\-], [^\w#], \d and \s of the patterns
IsNonWord(c) == ~IsWord(c)
IsUnitNumByte(c) == IsLetter(c) \/ IsDigit(c) \/ c = "-"
IsNumberLead(c) == ~IsWord(c) /\ c # "#"
IsRegexSpace(c) == c \in { " ", "\t", "\n", "\f", "\r" }

InClass(class, c) ==
    CASE class = "NonWord" -> IsNonWord(c)
      [] class = "UnitNum" -> IsUnitNumByte(c)
      [] class = "NumberLead" -> IsNumberLead(c)
      [] class = "Digit" -> IsDigit(c)
      [] class = "Space" -> IsRegexSpace(c)

\* the end (exclusive) of the longest run from i of bytes of a class
RunEnd(s, i, class) ==
    IF i > Len(s) THEN i
    ELSE Min({ j \in i..(Len(s) + 1) : j = Len(s) + 1 \/ ~InClass(class, s[j]) })

AllDigits(s, from, to) == to <= Len(s) /\ \A k \in from..to : IsDigit(s[k])

\* zip: (?i)\b(\d{5})(?:[-\s]?(\d{4}))?\b   (parser.go:46)
ZipAt(s, i) ==
    IF ~(Boundary(s, i) /\ AllDigits(s, i, i + 4)) THEN NoMatch
    ELSE IF /\ i + 5 <= Len(s)
            /\ s[i + 5] \in { "-", " ", "\t", "\n", "\f", "\r" }
            /\ AllDigits(s, i + 6, i + 9)
            /\ Boundary(s, i + 10)
         THEN [ start |-> i, end |-> i + 10,
                groups |-> << SubSeq(s, i, i + 4), SubSeq(s, i + 6, i + 9) >> ]
    ELSE IF AllDigits(s, i + 5, i + 8) /\ Boundary(s, i + 9)
         THEN [ start |-> i, end |-> i + 9,
                groups |-> << SubSeq(s, i, i + 4), SubSeq(s, i + 5, i + 8) >> ]
    ELSE IF Boundary(s, i + 5)
         THEN [ start |-> i, end |-> i + 5, groups |-> << SubSeq(s, i, i + 4), << >> >> ]
    ELSE NoMatch

\* state: (?i)\b([A-Z]{2})\b   (parser.go:49)
StateAt(s, i) ==
    IF /\ Boundary(s, i)
       /\ i + 1 <= Len(s)
       /\ IsLetter(s[i])
       /\ IsLetter(s[i + 1])
       /\ Boundary(s, i + 2)
    THEN [ start |-> i, end |-> i + 2, groups |-> << SubSeq(s, i, i + 1) >> ]
    ELSE NoMatch

\* corner: (?i)\b(and|at|&|@)\b   (parser.go:55)
CornerWords == << <<"a", "n", "d">>, <<"a", "t">>, << "&" >>, << "@" >> >>

CornerAt(s, i) ==
    LET ok == { k \in 1..Len(CornerWords) :
                    /\ LitAt(s, i, CornerWords[k])
                    /\ Boundary(s, i + Len(CornerWords[k])) }
    IN  IF ~Boundary(s, i) \/ ok = {} THEN NoMatch
        ELSE LET w == CornerWords[Min(ok)]
             IN  [ start |-> i, end |-> i + Len(w),
                   groups |-> << SubSeq(s, i, i + Len(w) - 1) >> ]

\* secUnit: (?i)(?:\b(apt|apartment|suite|ste|unit|#|room|rm|floor|fl|building|bldg)
\*              \W*([a-z0-9\-]+)|(\bbasement\b|\bfront\b|\brear\b))   (parser.go:52)
UnitWords == << <<"a", "p", "t">>,
               <<"a", "p", "a", "r", "t", "m", "e", "n", "t">>,
               <<"s", "u", "i", "t", "e">>,
               <<"s", "t", "e">>,
               <<"u", "n", "i", "t">>,
               <<"#">>,
               <<"r", "o", "o", "m">>,
               <<"r", "m">>,
               <<"f", "l", "o", "o", "r">>,
               <<"f", "l">>,
               <<"b", "u", "i", "l", "d", "i", "n", "g">>,
               <<"b", "l", "d", "g">> >>
AloneWords == << <<"b", "a", "s", "e", "m", "e", "n", "t">>, <<"f", "r", "o", "n", "t">>, <<"r", "e", "a", "r">> >>

\* \W*([a-z0-9\-]+) from position j: \W* is greedy, so the group starts at the
\* last position of the non-word run (or right after it) that can start it
UnitNumStart(s, j) ==
    Let(RunEnd(s, j, "NonWord"), LAMBDA k :
    Let({ w \in j..k : w <= Len(s) /\ IsUnitNumByte(s[w]) }, LAMBDA from :
        IF from = {} THEN 0 ELSE Max(from)))

\* the first alternative: the keyword w at i, then the unit number
SecUnitKeyword(s, i, w) ==
    Let(UnitNumStart(s, i + Len(w)), LAMBDA g :
    Let(RunEnd(s, g, "UnitNum"), LAMBDA e :
        [ start |-> i, end |-> e,
          groups |-> << SubSeq(s, i, i + Len(w) - 1), SubSeq(s, g, e - 1), << >> >> ]))

\* the second alternative: the word w at i, alone
SecUnitAlone(s, i, w) ==
    [ start |-> i, end |-> i + Len(w),
      groups |-> << << >>, << >>, SubSeq(s, i, i + Len(w) - 1) >> ]

SecUnitAt(s, i) ==
    Let({ k \in 1..Len(UnitWords) :
            /\ LitAt(s, i, UnitWords[k])
            /\ UnitNumStart(s, i + Len(UnitWords[k])) # 0 }, LAMBDA kw :
    Let({ k \in 1..Len(AloneWords) :
            /\ LitAt(s, i, AloneWords[k])
            /\ Boundary(s, i + Len(AloneWords[k])) }, LAMBDA al :
        IF ~Boundary(s, i) THEN NoMatch
        ELSE IF kw # {} THEN SecUnitKeyword(s, i, UnitWords[Min(kw)])
        ELSE IF al # {} THEN SecUnitAlone(s, i, AloneWords[Min(al)])
        ELSE NoMatch))

\* the match of each pattern at every position of s
ZipMatches(s) == [ i \in 1..Len(s) |-> ZipAt(s, i) ]
StateMatches(s) == [ i \in 1..Len(s) |-> StateAt(s, i) ]
CornerMatches(s) == [ i \in 1..Len(s) |-> CornerAt(s, i) ]
SecUnitMatches(s) == [ i \in 1..Len(s) |-> SecUnitAt(s, i) ]

\* the leftmost match at or after position from
FindFrom(ms, from) ==
    Let({ i \in from..Len(ms) : Matched(ms[i]) }, LAMBDA at :
        IF at = {} THEN NoMatch ELSE ms[Min(at)])

\* Regexp.FindStringSubmatch, Regexp.MatchString
Find(ms) == FindFrom(ms, 1)
MatchString(ms) == Matched(Find(ms))

RECURSIVE ReplaceAllFrom(_, _, _, _)
ReplaceAllFrom(ms, s, from, repl) ==
    Let(FindFrom(ms, from), LAMBDA m :
        IF ~Matched(m) THEN Slice(s, from, Len(s))
        ELSE Slice(s, from, m.start - 1) \o repl \o ReplaceAllFrom(ms, s, m.end, repl))

\* Regexp.ReplaceAllString: every non-overlapping match, leftmost first
ReplaceAllString(ms, s, repl) == ReplaceAllFrom(ms, s, 1, repl)

\* Regexp.Split(s, 2): the text before and after the first match, or s alone
Split2(ms, s) ==
    Let(Find(ms), LAMBDA m :
        IF s = << >> THEN << << >> >>
        ELSE IF ~Matched(m) THEN << s >>
        ELSE << Slice(s, 1, m.start - 1), Slice(s, m.end, Len(s)) >>)

\* number: (?i)^[^\w#]*(\d+[\-]?\d*|[NSEW]\d{1,3}[NSEW]\d{1,6})\b   (parser.go:43)
IsNSEW(c) == ToLowerByte(c) \in { "n", "s", "e", "w" }

\* \d+[\-]?\d*\b from the digit at p: the end of the longest alternative that
\* ends at a word boundary, 0 if none does
DigitsEnd(s, p) ==
    Let(RunEnd(s, p, "Digit"), LAMBDA q :
    Let(RunEnd(s, q + 1, "Digit"), LAMBDA r :
        IF q <= Len(s) /\ s[q] = "-"
        THEN IF Boundary(s, r) THEN r
             ELSE IF Boundary(s, q + 1) THEN q + 1
             ELSE q
        ELSE IF Boundary(s, q) THEN q ELSE 0))

\* [NSEW]\d{1,3}[NSEW]\d{1,6}\b from p: its end, 0 if it does not match
GridEnd(s, p) ==
    Let(RunEnd(s, p + 1, "Digit"), LAMBDA a :
    Let(RunEnd(s, a + 1, "Digit"), LAMBDA b :
        IF /\ IsNSEW(s[p])
           /\ a - (p + 1) \in 1..3
           /\ a <= Len(s)
           /\ IsNSEW(s[a])
           /\ b - (a + 1) \in 1..6
           /\ Boundary(s, b)
        THEN b ELSE 0))

NumberMatch(s) ==
    Let(RunEnd(s, 1, "NumberLead"), LAMBDA p :
    Let(IF p > Len(s) THEN 0
        ELSE IF IsDigit(s[p]) THEN DigitsEnd(s, p)
        ELSE GridEnd(s, p), LAMBDA e :
        IF e = 0 THEN NoMatch
        ELSE [ start |-> 1, end |-> e, groups |-> << SubSeq(s, p, e - 1) >> ]))

\* poBox: (?i)^[^\w]*p\W*(?:o|ost\s*office)?\W*box\W*(\d+)   (parser.go:58)
\* (?:o|ost\s*office)?\W*box from a: the position of "box" after each form of
\* the optional group, 0 if none matches
BoxAt(s, a) ==
    Let(RunEnd(s, a + 1, "NonWord"), LAMBDA b1 :
    Let(RunEnd(s, a + 3, "Space"), LAMBDA o2 :
    Let(RunEnd(s, o2 + 6, "NonWord"), LAMBDA b2 :
        IF LitAt(s, a, << "o" >>) /\ LitAt(s, b1, <<"b", "o", "x">>) THEN b1
        ELSE IF /\ LitAt(s, a, <<"o", "s", "t">>)
                /\ LitAt(s, o2, <<"o", "f", "f", "i", "c", "e">>)
                /\ LitAt(s, b2, <<"b", "o", "x">>) THEN b2
        ELSE IF LitAt(s, a, <<"b", "o", "x">>) THEN a
        ELSE 0)))

PoBoxMatch(s) ==
    Let(RunEnd(s, 1, "NonWord"), LAMBDA p :
    Let(BoxAt(s, RunEnd(s, p + 1, "NonWord")), LAMBDA box :
    Let(RunEnd(s, box + 3, "NonWord"), LAMBDA d :
    Let(RunEnd(s, d, "Digit"), LAMBDA e :
        IF p > Len(s) \/ ~LitAt(s, p, << "p" >>) \/ box = 0 \/ e = d THEN NoMatch
        ELSE [ start |-> 1, end |-> e, groups |-> << SubSeq(s, d, e - 1) >> ]))))

\* -------------------------------------------------------------------- types.go

EmptyString == << >>

\* the zero value of ParsedAddress
EmptyAddress ==
    [ Number |-> EmptyString, Prefix |-> EmptyString, Street |-> EmptyString,
      Type |-> EmptyString, Suffix |-> EmptyString, SecUnitType |-> EmptyString,
      SecUnitNum |-> EmptyString, City |-> EmptyString, State |-> EmptyString,
      ZIP |-> EmptyString, Plus4 |-> EmptyString ]

\* the zero value of ParsedIntersection
EmptyIntersection ==
    [ Prefix1 |-> EmptyString, Street1 |-> EmptyString, Type1 |-> EmptyString,
      Suffix1 |-> EmptyString, Prefix2 |-> EmptyString, Street2 |-> EmptyString,
      Type2 |-> EmptyString, Suffix2 |-> EmptyString, City |-> EmptyString,
      State |-> EmptyString, ZIP |-> EmptyString ]

\* a nil pointer
Nil == [ nil |-> TRUE ]

\* ParsedAddress.IsEmpty
IsEmpty(p) == \A f \in DOMAIN p : p[f] = EmptyString

\* word[:1] and word[1:] of a non-empty word, with the case of each changed
TitleWord(word) == ToUpper(SubSeq(word, 1, 1)) \o ToLower(Slice(word, 2, Len(word)))

titleCase(s) ==
    LET t     == TrimSpace(s)
        words == Fields(t)
    IN  IF t = EmptyString THEN t
        ELSE Join([ i \in 1..Len(words) |-> TitleWord(words[i]) ], << " " >>)

\* ParsedAddress.Normalize
Normalize(p) ==
    [ Number |-> TrimSpace(p.Number), Prefix |-> TrimSpace(p.Prefix),
      Street |-> titleCase(p.Street), Type |-> TrimSpace(p.Type),
      Suffix |-> TrimSpace(p.Suffix), SecUnitType |-> TrimSpace(p.SecUnitType),
      SecUnitNum |-> TrimSpace(p.SecUnitNum), City |-> titleCase(p.City),
      State |-> ToUpper(TrimSpace(p.State)), ZIP |-> TrimSpace(p.ZIP),
      Plus4 |-> TrimSpace(p.Plus4) ]

\* -------------------------------------------------- the normalization tables
\* (the tables and the three Normalize functions of the parser package)

DirectionalPairs ==
    { << <<"n", "o", "r", "t", "h">>, <<"N">> >>,
      << <<"n", "o", "r", "t", "h", "e", "a", "s", "t">>, <<"N", "E">> >>,
      << <<"e", "a", "s", "t">>, <<"E">> >>,
      << <<"s", "o", "u", "t", "h", "e", "a", "s", "t">>, <<"S", "E">> >>,
      << <<"s", "o", "u", "t", "h">>, <<"S">> >>,
      << <<"s", "o", "u", "t", "h", "w", "e", "s", "t">>, <<"S", "W">> >>,
      << <<"w", "e", "s", "t">>, <<"W">> >>,
      << <<"n", "o", "r", "t", "h", "w", "e", "s", "t">>, <<"N", "W">> >>,
      << <<"n">>, <<"N">> >>,
      << <<"n", "e">>, <<"N", "E">> >>,
      << <<"e">>, <<"E">> >>,
      << <<"s", "e">>, <<"S", "E">> >>,
      << <<"s">>, <<"S">> >>,
      << <<"s", "w">>, <<"S", "W">> >>,
      << <<"w">>, <<"W">> >>,
      << <<"n", "w">>, <<"N", "W">> >> }

StreetTypePairs ==
    { << <<"a", "v", "e", "n", "u", "e">>, <<"a", "v", "e">> >>,
      << <<"a", "v", "e">>, <<"a", "v", "e">> >>,
      << <<"a", "v">>, <<"a", "v", "e">> >>,
      << <<"b", "o", "u", "l", "e", "v", "a", "r", "d">>, <<"b", "l", "v", "d">> >>,
      << <<"b", "l", "v", "d">>, <<"b", "l", "v", "d">> >>,
      << <<"s", "t", "r", "e", "e", "t">>, <<"s", "t">> >>,
      << <<"s", "t">>, <<"s", "t">> >>,
      << <<"s", "t", "r">>, <<"s", "t">> >>,
      << <<"h", "i", "g", "h", "w", "a", "y">>, <<"h", "w", "y">> >>,
      << <<"h", "w", "y">>, <<"h", "w", "y">> >>,
      << <<"r", "o", "a", "d">>, <<"r", "d">> >>,
      << <<"r", "d">>, <<"r", "d">> >>,
      << <<"d", "r", "i", "v", "e">>, <<"d", "r">> >>,
      << <<"d", "r">>, <<"d", "r">> >>,
      << <<"l", "a", "n", "e">>, <<"l", "n">> >>,
      << <<"l", "n">>, <<"l", "n">> >>,
      << <<"c", "o", "u", "r", "t">>, <<"c", "t">> >>,
      << <<"c", "t">>, <<"c", "t">> >>,
      << <<"p", "l", "a", "c", "e">>, <<"p", "l">> >>,
      << <<"p", "l">>, <<"p", "l">> >>,
      << <<"p", "a", "r", "k", "w", "a", "y">>, <<"p", "k", "w", "y">> >>,
      << <<"p", "k", "w", "y">>, <<"p", "k", "w", "y">> >>,
      << <<"c", "i", "r", "c", "l", "e">>, <<"c", "i", "r">> >>,
      << <<"c", "i", "r">>, <<"c", "i", "r">> >>,
      << <<"w", "a", "y">>, <<"w", "a", "y">> >>,
      << <<"s", "q", "u", "a", "r", "e">>, <<"s", "q">> >>,
      << <<"s", "q">>, <<"s", "q">> >>,
      << <<"t", "e", "r", "r", "a", "c", "e">>, <<"t", "e", "r">> >>,
      << <<"t", "e", "r">>, <<"t", "e", "r">> >>,
      << <<"t", "r", "a", "i", "l">>, <<"t", "r", "l">> >>,
      << <<"t", "r", "l">>, <<"t", "r", "l">> >> }

StatePairs ==
    { << <<"a", "l">>, <<"A", "L">> >>,
      << <<"a", "k">>, <<"A", "K">> >>,
      << <<"a", "z">>, <<"A", "Z">> >>,
      << <<"a", "r">>, <<"A", "R">> >>,
      << <<"c", "a">>, <<"C", "A">> >>,
      << <<"c", "o">>, <<"C", "O">> >>,
      << <<"c", "t">>, <<"C", "T">> >>,
      << <<"d", "e">>, <<"D", "E">> >>,
      << <<"d", "c">>, <<"D", "C">> >>,
      << <<"f", "l">>, <<"F", "L">> >>,
      << <<"g", "a">>, <<"G", "A">> >>,
      << <<"h", "i">>, <<"H", "I">> >>,
      << <<"i", "d">>, <<"I", "D">> >>,
      << <<"i", "l">>, <<"I", "L">> >>,
      << <<"i", "n">>, <<"I", "N">> >>,
      << <<"i", "a">>, <<"I", "A">> >>,
      << <<"k", "s">>, <<"K", "S">> >>,
      << <<"k", "y">>, <<"K", "Y">> >>,
      << <<"l", "a">>, <<"L", "A">> >>,
      << <<"m", "e">>, <<"M", "E">> >>,
      << <<"m", "d">>, <<"M", "D">> >>,
      << <<"m", "a">>, <<"M", "A">> >>,
      << <<"m", "i">>, <<"M", "I">> >>,
      << <<"m", "n">>, <<"M", "N">> >>,
      << <<"m", "s">>, <<"M", "S">> >>,
      << <<"m", "o">>, <<"M", "O">> >>,
      << <<"m", "t">>, <<"M", "T">> >>,
      << <<"n", "e">>, <<"N", "E">> >>,
      << <<"n", "v">>, <<"N", "V">> >>,
      << <<"n", "h">>, <<"N", "H">> >>,
      << <<"n", "j">>, <<"N", "J">> >>,
      << <<"n", "m">>, <<"N", "M">> >>,
      << <<"n", "y">>, <<"N", "Y">> >>,
      << <<"n", "c">>, <<"N", "C">> >>,
      << <<"n", "d">>, <<"N", "D">> >>,
      << <<"o", "h">>, <<"O", "H">> >>,
      << <<"o", "k">>, <<"O", "K">> >>,
      << <<"o", "r">>, <<"O", "R">> >>,
      << <<"p", "a">>, <<"P", "A">> >>,
      << <<"r", "i">>, <<"R", "I">> >>,
      << <<"s", "c">>, <<"S", "C">> >>,
      << <<"s", "d">>, <<"S", "D">> >>,
      << <<"t", "n">>, <<"T", "N">> >>,
      << <<"t", "x">>, <<"T", "X">> >>,
      << <<"u", "t">>, <<"U", "T">> >>,
      << <<"v", "t">>, <<"V", "T">> >>,
      << <<"v", "a">>, <<"V", "A">> >>,
      << <<"w", "a">>, <<"W", "A">> >>,
      << <<"w", "v">>, <<"W", "V">> >>,
      << <<"w", "i">>, <<"W", "I">> >>,
      << <<"w", "y">>, <<"W", "Y">> >>,
      << <<"c", "a", "l", "i", "f", "o", "r", "n", "i", "a">>, <<"C", "A">> >>,
      << <<"t", "e", "x", "a", "s">>, <<"T", "X">> >>,
      << <<"o", "r", "e", "g", "o", "n">>, <<"O", "R">> >>,
      << <<"n", "e", "w", " ", "y", "o", "r", "k">>, <<"N", "Y">> >> }

TableOf(pairs) == [ k \in { p[1] : p \in pairs } |-> (CHOOSE p \in pairs : p[1] = k)[2] ]

Directional == TableOf(DirectionalPairs)
StreetType == TableOf(StreetTypePairs)
States == TableOf(StatePairs)

Lookup(tbl, key) == IF key \in DOMAIN tbl THEN tbl[key] ELSE EmptyString

\* directional word or abbreviation -> canonical abbreviation, "" if none
NormalizeDirectional(s) == Lookup(Directional, ToLower(TrimSpace(s)))

\* street-type synonym or abbreviation -> canonical abbreviation, "" if none
NormalizeStreetType(s) == Lookup(StreetType, ToLower(TrimSpace(s)))

\* state name or abbreviation -> canonical two-letter code, "" if none
NormalizeState(s) == Lookup(States, ToLower(TrimSpace(s)))


\* ------------------------------------------------------------------ parser.go

\* Go indexes from 0: seq[i] and seq[lo:hi]
At(seq, i) == seq[i + 1]
GoSlice(seq, lo, hi) == Slice(seq, lo + 1, hi)
InRange(seq, i) == 0 <= i /\ i < Len(seq)
SliceInRange(seq, lo, hi) == 0 <= lo /\ lo <= hi /\ hi <= Len(seq)

\* StreetParts without the test that the type differs from the word
StreetPartsAnyType(words) ==
    Let(IF Len(words) > 0 THEN NormalizeDirectional(At(words, 0)) ELSE EmptyString, LAMBDA prefix :
    Let(IF prefix # EmptyString THEN GoSlice(words, 1, Len(words)) ELSE words, LAMBDA w1 :
    Let(IF Len(w1) > 0 THEN NormalizeDirectional(At(w1, Len(w1) - 1)) ELSE EmptyString, LAMBDA suffix :
    Let(IF suffix # EmptyString THEN GoSlice(w1, 0, Len(w1) - 1) ELSE w1, LAMBDA w2 :
    Let(IF Len(w2) > 0 THEN NormalizeStreetType(At(w2, Len(w2) - 1)) ELSE EmptyString, LAMBDA type :
    Let(Len(w2) > 0 /\ type # EmptyString, LAMBDA isType :
    Let(IF isType THEN GoSlice(w2, 0, Len(w2) - 1) ELSE w2, LAMBDA w3 :
        [ Prefix |-> prefix, Suffix |-> suffix,
          Type |-> IF isType THEN type ELSE EmptyString,
          Street |-> IF Len(w3) > 0 THEN Join(w3, << " " >>) ELSE EmptyString ])))))))

\* the last word is a street type when it normalizes to something else
\* (lines 227-234, 330-335, 373-378)
StreetParts(words) ==
    Let(IF Len(words) > 0 THEN NormalizeDirectional(At(words, 0)) ELSE EmptyString, LAMBDA prefix :
    Let(IF prefix # EmptyString THEN GoSlice(words, 1, Len(words)) ELSE words, LAMBDA w1 :
    Let(IF Len(w1) > 0 THEN NormalizeDirectional(At(w1, Len(w1) - 1)) ELSE EmptyString, LAMBDA suffix :
    Let(IF suffix # EmptyString THEN GoSlice(w1, 0, Len(w1) - 1) ELSE w1, LAMBDA w2 :
    Let(IF Len(w2) > 0 THEN NormalizeStreetType(At(w2, Len(w2) - 1)) ELSE EmptyString, LAMBDA type :
    Let(Len(w2) > 0 /\ type # EmptyString /\ type # At(w2, Len(w2) - 1), LAMBDA isType :
    Let(IF isType THEN GoSlice(w2, 0, Len(w2) - 1) ELSE w2, LAMBDA w3 :
        [ Prefix |-> prefix, Suffix |-> suffix,
          Type |-> IF isType THEN type ELSE EmptyString,
          Street |-> IF Len(w3) > 0 THEN Join(w3, << " " >>) ELSE EmptyString ])))))))

\* AddressZip without the second capture group: the +4 is removed but not kept
AddressZipFirstFive(st) ==
    Let(Find(ZipMatches(st.address)), LAMBDA m :
        IF ~Matched(m) THEN st
        ELSE [ st EXCEPT !.result.ZIP = m.groups[1],
                         !.address = ReplaceAllString(ZipMatches(st.address), st.address, EmptyString) ])

\* lines 128-135: the first ZIP is captured, every ZIP is removed
AddressZip(st) ==
    Let(Find(ZipMatches(st.address)), LAMBDA m :
        IF ~Matched(m) THEN st
        ELSE [ st EXCEPT !.result.ZIP = m.groups[1],
                         !.result.Plus4 = m.groups[2],
                         !.address = ReplaceAllString(ZipMatches(st.address), st.address, EmptyString) ])

\* lines 158-159: the index of the state among the last three words, -1 if none
StateIndex(words) ==
    Let({ i \in 0..(Len(words) - 1) :
            i >= Len(words) - 3 /\ MatchString(StateMatches(At(words, i))) }, LAMBDA at :
        IF at = {} THEN 0 - 1 ELSE Max(at))

RECURSIVE CityStartAtNumber(_, _)
\* CityStart without the street-type test: the walk stops at a number only
CityStartAtNumber(words, cityStart) ==
    IF cityStart > 0
    THEN IF ~InRange(words, cityStart - 1) THEN 0 - 1
         ELSE IF Matched(NumberMatch(At(words, cityStart - 1))) THEN cityStart
         ELSE CityStartAtNumber(words, cityStart - 1)
    ELSE cityStart

RECURSIVE CityStart(_, _)
\* lines 166-175: walk back from the word before the state to the first word
\* that follows a street type or a street number
CityStart(words, cityStart) ==
    IF cityStart > 0
    THEN IF ~InRange(words, cityStart - 1) THEN 0 - 1
         ELSE IF ToLower(At(words, cityStart - 1)) \in DOMAIN StreetType THEN cityStart
         ELSE IF Matched(NumberMatch(At(words, cityStart - 1))) THEN cityStart
         ELSE CityStart(words, cityStart - 1)
    ELSE cityStart

\* lines 138-152: with a comma, the state is searched in the last part and the
\* city is the part before it; the address cut at lines 144-145 is overwritten
\* at line 151
AddressStateCityComma(st, parts) ==
    Let(Len(parts), LAMBDA n :
    Let(Find(StateMatches(TrimSpace(At(parts, n - 1)))), LAMBDA m :
        IF ~(InRange(parts, n - 1) /\ InRange(parts, n - 2)) THEN [ st EXCEPT !.panic = TRUE ]
        ELSE [ st EXCEPT !.result.State = IF Matched(m) THEN NormalizeState(m.groups[1]) ELSE @,
                         !.result.City = TrimSpace(At(parts, n - 2)),
                         !.address = Join(GoSlice(parts, 0, n - 2), << "," >>) ]))

\* lines 160-182: the state is words[i], the city the words back to cityStart
AddressStateCityAt(st, words, i) ==
    Let(NormalizeState(Find(StateMatches(At(words, i))).groups[1]), LAMBDA state :
    Let(CityStart(words, i - 1), LAMBDA cityStart :
        IF i = 0 THEN [ st EXCEPT !.result.State = state ]
        ELSE IF ~SliceInRange(words, cityStart, i) THEN [ st EXCEPT !.panic = TRUE ]
        ELSE [ st EXCEPT !.result.State = state,
                         !.result.City = Join(GoSlice(words, cityStart, i), << " " >>),
                         !.address = Join(GoSlice(words, 0, cityStart), << " " >>) ]))

\* lines 153-184: without a comma, the state is searched in the last three words
AddressStateCityWords(st) ==
    Let(Fields(st.address), LAMBDA words :
    Let(StateIndex(words), LAMBDA i :
        IF Len(words) < 2 \/ i < 0 THEN st
        ELSE AddressStateCityAt(st, words, i)))

\* AddressStateCity without the test on the number of parts
AddressStateCityAnyParts(st) == AddressStateCityComma(st, Split(st.address, ","))

\* lines 137-184
AddressStateCity(st) ==
    Let(Split(st.address, ","), LAMBDA parts :
        IF Len(parts) >= 2 THEN AddressStateCityComma(st, parts)
        ELSE AddressStateCityWords(st))

\* lines 186-197: the first unit is captured, every unit is replaced by a space
AddressSecUnit(st) ==
    Let(Find(SecUnitMatches(st.address)), LAMBDA m :
        IF ~Matched(m) THEN st
        ELSE IF Len(m.groups) # 3 THEN [ st EXCEPT !.panic = TRUE ]
        ELSE [ st EXCEPT
                 !.result.SecUnitType =
                     IF m.groups[1] # EmptyString THEN TrimSpace(m.groups[1])
                     ELSE IF m.groups[3] # EmptyString THEN TrimSpace(m.groups[3])
                     ELSE @,
                 !.result.SecUnitNum =
                     IF m.groups[1] # EmptyString /\ m.groups[2] # EmptyString
                     THEN TrimSpace(m.groups[2]) ELSE @,
                 !.address = ReplaceAllString(SecUnitMatches(st.address), st.address, << " " >>) ])

\* lines 199-204: the number leads the text, so its first occurrence is the match
AddressNumber(st) ==
    Let(NumberMatch(st.address), LAMBDA m :
        IF ~Matched(m) THEN st
        ELSE [ st EXCEPT !.result.Number = TrimSpace(m.groups[1]),
                         !.address = Slice(st.address, m.end, Len(st.address)) ])

\* lines 206-243
AddressStreet(st) ==
    Let(Fields(TrimSpace(st.address)), LAMBDA words :
    Let(StreetParts(words), LAMBDA sp :
        IF Len(words) = 0 THEN st
        ELSE [ st EXCEPT !.result.Prefix = sp.Prefix, !.result.Suffix = sp.Suffix,
                         !.result.Type = sp.Type, !.result.Street = sp.Street ]))

\* the local variables of ParseAddress after its last extraction
AddressSteps(address) ==
    AddressStreet(AddressNumber(AddressSecUnit(AddressStateCity(AddressZip(
        [ address |-> address, result |-> EmptyAddress, panic |-> FALSE ])))))

\* the call did not return: a run-time panic (index out of range)
Panic == [ panic |-> TRUE ]

\* Parser.ParseAddress
ParseAddress(address) ==
    Let(AddressSteps(address), LAMBDA st :
        IF st.panic THEN Panic ELSE Normalize(st.result))

\* ParseInformalAddress without the fallback
ParseInformalAddressAsStandard(address) == ParseAddress(address)

\* Parser.ParseInformalAddress: the fallback joins the words of its argument
ParseInformalAddress(address) ==
    Let(ParseAddress(address), LAMBDA result :
    Let(Fields(address), LAMBDA words :
        IF result = Panic THEN Panic
        ELSE IF result.Number = EmptyString /\ result.Street = EmptyString /\ Len(words) > 0
        THEN [ result EXCEPT !.Street = Join(words, << " " >>) ]
        ELSE result))

POBOX == << "P", "O", " ", "B", "o", "x" >>

\* PoAddressCut without the removal of the matches
PoAddressCutKeep(ms, address) ==
    Let(Find(ms), LAMBDA m : [ m |-> m, address |-> address ])

\* lines 273-277, 280-287, 290-294: a pattern's first match is captured and, for
\* the ZIP and the state, every match is removed
PoAddressCut(ms, address) ==
    Let(Find(ms), LAMBDA m :
        [ m |-> m,
          address |-> IF Matched(m) THEN ReplaceAllString(ms, address, EmptyString)
                      ELSE address ])

\* Parser.ParsePoAddress
ParsePoAddress(address) ==
    Let(PoBoxMatch(address), LAMBDA mb :
    Let(IF Matched(mb) THEN Slice(address, mb.end, Len(address)) ELSE address, LAMBDA rest :
    Let(PoAddressCut(ZipMatches(rest), rest), LAMBDA z :
    Let(PoAddressCut(StateMatches(z.address), z.address), LAMBDA s :
        Normalize(
          [ EmptyAddress EXCEPT
              !.SecUnitType = IF Matched(mb) THEN POBOX ELSE EmptyString,
              !.SecUnitNum = IF Matched(mb) THEN mb.groups[1] ELSE EmptyString,
              !.ZIP = IF Matched(z.m) THEN z.m.groups[1] ELSE EmptyString,
              !.Plus4 = IF Matched(z.m) THEN z.m.groups[2] ELSE EmptyString,
              !.State = IF Matched(s.m) THEN NormalizeState(s.m.groups[1]) ELSE EmptyString,
              !.City = Trim(TrimSpace(s.address), ",") ])))))

\* lines 349-361: the state is searched in the last comma part; with more than
\* one part left the last is the city and the first the second street
IntersectionCityState(zip, s2, parts) ==
    Let(Find(StateMatches(TrimSpace(At(parts, Len(parts) - 1)))), LAMBDA ms :
    Let(IF Matched(ms) THEN GoSlice(parts, 0, Len(parts) - 1) ELSE parts, LAMBDA rest :
    Let(Len(parts) > 1 /\ Len(rest) > 1, LAMBDA more :
        [ ZIP |-> zip,
          State |-> IF Len(parts) > 1 /\ Matched(ms) THEN NormalizeState(ms.groups[1])
                    ELSE EmptyString,
          City |-> IF more THEN TrimSpace(At(rest, Len(rest) - 1)) ELSE EmptyString,
          street2 |-> IF more THEN TrimSpace(At(rest, 0)) ELSE s2 ])))

\* lines 342-361: ZIP, state and city are taken from the second half
IntersectionLocality(street2) ==
    Let(Find(ZipMatches(street2)), LAMBDA mz :
    Let(IF Matched(mz) THEN ReplaceAllString(ZipMatches(street2), street2, EmptyString) ELSE street2, LAMBDA s2 :
        IntersectionCityState(IF Matched(mz) THEN mz.groups[1] ELSE EmptyString,
                              s2, Split(s2, ","))))

\* CommonType with no type copied
CommonTypeOwn(r) == r

\* lines 385-390: one street without a type takes the type of the other
CommonType(r) ==
    IF r.Type1 = EmptyString /\ r.Type2 # EmptyString THEN [ r EXCEPT !.Type1 = r.Type2 ]
    ELSE IF r.Type2 = EmptyString /\ r.Type1 # EmptyString THEN [ r EXCEPT !.Type2 = r.Type1 ]
    ELSE r

\* Parser.ParseIntersection
ParseIntersection(address) ==
    Let(Split2(CornerMatches(address), address), LAMBDA parts :
    Let(StreetParts(Fields(TrimSpace(At(parts, 0)))), LAMBDA sp1 :
    Let(IntersectionLocality(TrimSpace(At(parts, 1))), LAMBDA loc :
    Let(StreetParts(Fields(loc.street2)), LAMBDA sp2 :
        IF Len(parts) # 2 THEN Nil
        ELSE CommonType(
               [ Prefix1 |-> sp1.Prefix, Street1 |-> sp1.Street, Type1 |-> sp1.Type,
                 Suffix1 |-> sp1.Suffix, Prefix2 |-> sp2.Prefix, Street2 |-> sp2.Street,
                 Type2 |-> sp2.Type, Suffix2 |-> sp2.Suffix, City |-> loc.City,
                 State |-> loc.State, ZIP |-> loc.ZIP ])))))

\* ----------------------------------------------------------- package config

DigitSeq == << "0", "1", "2", "3", "4", "5", "6", "7", "8", "9" >>
DigitValue(c) == (CHOOSE i \in 1..10 : DigitSeq[i] = c) - 1

RECURSIVE Decimal(_)
\* the number a run of decimal digits writes
Decimal(s) ==
    IF s = << >> THEN 0
    ELSE 10 * Decimal(SubSeq(s, 1, Len(s) - 1)) + DigitValue(s[Len(s)])

\* what a conversion returns: the value, or an error
Parsed(v) == [ ok |-> TRUE, value |-> v ]
Invalid == [ ok |-> FALSE, value |-> 0 ]

Signed(s) == s # << >> /\ s[1] \in { "+", "-" }
Unsigned(s) == IF Signed(s) THEN Tail(s) ELSE s
AllDigitBytes(s) == s # << >> /\ \A i \in 1..Len(s) : IsDigit(s[i])

\* strconv.Atoi: an optional sign and decimal digits
Atoi(s) ==
    IF ~AllDigitBytes(Unsigned(s)) THEN Invalid
    ELSE IF s[1] = "-" THEN Parsed(0 - Decimal(Unsigned(s)))
    ELSE Parsed(Decimal(Unsigned(s)))

\* the units of time.ParseDuration the model writes, in milliseconds
UnitPairs ==
    { << <<"m", "s">>, 1 >>,
      << <<"s">>, 1000 >>,
      << <<"m">>, 60000 >> }

\* time.ParseDuration on "0" and on [sign]<digits><unit>; a time.Duration is
\* held in milliseconds
ParseDuration(s) ==
    Let(Unsigned(s), LAMBDA body :
    Let(RunEnd(body, 1, "Digit"), LAMBDA e :
    Let({ u \in UnitPairs : u[1] = Slice(body, e, Len(body)) }, LAMBDA units :
        IF body = << "0" >> THEN Parsed(0)
        ELSE IF e = 1 \/ units = { } THEN Invalid
        ELSE Let(Decimal(SubSeq(body, 1, e - 1)) * (CHOOSE u \in units : TRUE)[2], LAMBDA d :
             IF s[1] = "-" THEN Parsed(0 - d) ELSE Parsed(d)))))

\* os.Getenv: the value of a variable that is not set is the empty string
NoEnv ==
    [ SERVER_PORT |-> EmptyString, SERVER_READ_TIMEOUT |-> EmptyString,
      SERVER_WRITE_TIMEOUT |-> EmptyString, SECURITY_MAX_INPUT_LENGTH |-> EmptyString,
      LOG_LEVEL |-> EmptyString ]

getEnv(e, key, defaultValue) == IF e[key] # EmptyString THEN e[key] ELSE defaultValue

getEnvAsInt(e, key, defaultValue) ==
    IF e[key] = EmptyString THEN defaultValue
    ELSE IF ~Atoi(e[key]).ok THEN defaultValue
    ELSE Atoi(e[key]).value

getEnvAsDuration(e, key, defaultValue) ==
    IF e[key] = EmptyString THEN defaultValue
    ELSE IF ~ParseDuration(e[key]).ok THEN defaultValue
    ELSE ParseDuration(e[key]).value

\* the Config that Load builds from the environment (the variables the model
\* leaves unset give their defaults)
FromEnv(e) ==
    [ Server |->
        [ Host |-> <<"0", ".", "0", ".", "0", ".", "0">>,
          Port |-> getEnvAsInt(e, "SERVER_PORT", 8080),
          ReadTimeout |-> getEnvAsDuration(e, "SERVER_READ_TIMEOUT", 10 * 1000),
          WriteTimeout |-> getEnvAsDuration(e, "SERVER_WRITE_TIMEOUT", 10 * 1000),
          ShutdownTimeout |-> 15 * 1000,
          MaxRequestSize |-> 1024 * 1024 ],
      Security |->
        [ EnableCORS |-> TRUE,
          AllowedOrigins |-> << << "*" >> >>,
          RateLimitPerMin |-> 60,
          MaxInputLength |-> getEnvAsInt(e, "SECURITY_MAX_INPUT_LENGTH", 10000) ],
      Logging |->
        [ Level |-> getEnv(e, "LOG_LEVEL", <<"i", "n", "f", "o">>),
          Format |-> <<"j", "s", "o", "n">> ] ]

validLogLevels ==
    { <<"d", "e", "b", "u", "g">>, <<"i", "n", "f", "o">>, <<"w", "a", "r", "n">>,
      <<"e", "r", "r", "o", "r">> }

\* fmt.Errorf of package config
ConfigError(text) == [ kind |-> "config", text |-> text ]

\* Config.Validate with the least input length refused
ValidateConfigAboveLeast(c) ==
    IF c.Server.Port < 1 \/ c.Server.Port > 65535
    THEN ConfigError(<< "invalid server port: ", c.Server.Port, " (must be 1-65535)" >>)
    ELSE IF c.Server.ReadTimeout <= 0
    THEN ConfigError(<< "read timeout must be positive" >>)
    ELSE IF c.Server.WriteTimeout <= 0
    THEN ConfigError(<< "write timeout must be positive" >>)
    ELSE IF c.Security.MaxInputLength <= 100 \/ c.Security.MaxInputLength > 100000
    THEN ConfigError(<< "max input length must be between 100 and 100000" >>)
    ELSE IF c.Logging.Level \notin validLogLevels
    THEN ConfigError(<< "invalid log level: ", c.Logging.Level,
                        " (must be debug, info, warn, or error)" >>)
    ELSE NoError

\* Config.Validate
ValidateConfig(c) ==
    IF c.Server.Port < 1 \/ c.Server.Port > 65535
    THEN ConfigError(<< "invalid server port: ", c.Server.Port, " (must be 1-65535)" >>)
    ELSE IF c.Server.ReadTimeout <= 0
    THEN ConfigError(<< "read timeout must be positive" >>)
    ELSE IF c.Server.WriteTimeout <= 0
    THEN ConfigError(<< "write timeout must be positive" >>)
    ELSE IF c.Security.MaxInputLength < 100 \/ c.Security.MaxInputLength > 100000
    THEN ConfigError(<< "max input length must be between 100 and 100000" >>)
    ELSE IF c.Logging.Level \notin validLogLevels
    THEN ConfigError(<< "invalid log level: ", c.Logging.Level,
                        " (must be debug, info, warn, or error)" >>)
    ELSE NoError

\* Load: (cfg, err)
Load(e) ==
    Let(FromEnv(e), LAMBDA cfg :
    Let(ValidateConfig(cfg), LAMBDA verr :
        IF verr # NoError
        THEN [ cfg |-> Nil,
               err |-> ConfigError(<< "configuration validation failed: " >> \o verr.text) ]
        ELSE [ cfg |-> cfg, err |-> NoError ]))

\* ------------------------------------------------------------------- inputs

\* the longest run of chunks in a generated input
MaxChunks == 3

\* pieces of address text: a PO Box marker, an intersection marker, a street,
\* a number, a state, a ZIP, a separator, a directional
Chunks ==
    { <<"P", "O", " ", "B", "o", "x", " ", "1", "2">>,
      <<"a", "n", "d">>,
      <<"M", "a", "i", "n", " ", "S", "t">>,
      <<"1", "2", "3">>,
      <<"C", "A">>,
      <<"9", "5", "4", "7", "2">>,
      <<",">>,
      <<"N">> }

RECURSIVE ChunkSeqs(_)
\* the sequences of 1..n chunks
ChunkSeqs(n) ==
    IF n = 0 THEN { }
    ELSE LET shorter == ChunkSeqs(n - 1)
         IN  { << c >> : c \in Chunks } \cup shorter
               \cup { s \o << c >> : s \in { t \in shorter : Len(t) = n - 1 }, c \in Chunks }

Repeat(c, n) == [ i \in 1..n |-> c ]

\* inputs that meet the input guard: empty, blank, forbidden bytes, bad
\* encoding, the length cap and the working bound
GuardInputs ==
    { << >>,
      << " ", " ", " " >>,
      << "\t", "\n" >>,
      <<"1", "2", "3", "\t", "M", "a", "i", "n", "\n", " ", " ", "S", "t", " ">>,
      <<"1", "2", "3", " ", "M", "a", "i", "n">> \o << NUL >> \o <<"S", "t">>,
      << NUL >>,
      << ByteFF, "a" >>,
      << "a", ByteC3 >>,
      <<"1", "2", " ", "C", "a", "f">> \o << ByteC3, ByteA9 >> \o <<" ", "S", "t">>,
      Repeat("A", MaxAddressLength),
      Repeat("A", MaxAddressLength + 1),
      Repeat("A", MaxAddressLength - 1) \o << ByteC3, ByteA9, "B" >>,
      Repeat("A", MaxInputLength),
      Repeat("A", MaxInputLength + 1),
      Repeat("A", MaxInputLength + 2),
      << NUL >> \o Repeat("A", MaxInputLength),
      << ByteFF >> \o Repeat("A", MaxInputLength) }

\* inputs no decomposer but the informal one finds a field in
FallbackInputs ==
    { <<",", " ", "m", "a", "i", "n", " ", "s", "t", "r", "e", "e", "t">>,
      <<",", " ", "O", "A", "K", " ", "g", "r", "o", "v", "e">>,
      <<",", ",">> }

Inputs == { Join(s, << " " >>) : s \in ChunkSeqs(MaxChunks) } \cup GuardInputs \cup FallbackInputs

\* ------------------------------------------------------------ written shapes

\* a written word and the value it stands for
NoWord == << EmptyString, EmptyString >>

\* street-type abbreviations of two letters, as written and in canonical form
ShortTypes ==
    { << <<"S", "t">>, <<"s", "t">> >>,
      << <<"R", "d">>, <<"r", "d">> >>,
      << <<"D", "r">>, <<"d", "r">> >> }
\* last words of a street: as written, the canonical street type ("" if the
\* word is no street type), and title-cased
LastWords ==
    { << <<"s", "t">>, <<"s", "t">>, <<"S", "t">> >>,
      << <<"a", "v", "e">>, <<"a", "v", "e">>, <<"A", "v", "e">> >>,
      << <<"S", "t">>, <<"s", "t">>, <<"S", "t">> >>,
      << <<"A", "v", "e", "n", "u", "e">>, <<"a", "v", "e">>, <<"A", "v", "e", "n", "u", "e">> >>,
      << <<"P", "a", "r", "k">>, EmptyString, <<"P", "a", "r", "k">> >> }
NoLastWord == << EmptyString, EmptyString, EmptyString >>
DirWords ==
    { << <<"N">>, <<"N">> >>,
      << <<"S">>, <<"S">> >> }
StreetNames ==
    { <<"M", "a", "i", "n">>,
      <<"O", "a", "k">> }

Numbers ==
    { <<"1", "0", "0", "5">>,
      <<"7", "8", "9">> }
Directionals ==
    { << <<"N">>, <<"N">> >>,
      << <<"S", "W">>, <<"S", "W">> >> }
Names ==
    { <<"G", "r", "a", "v", "e", "n", "s", "t", "e", "i", "n">>,
      <<"O", "a", "k">> }
CrossNames ==
    { <<"5", "t", "h">>,
      <<"M", "a", "i", "n">>,
      <<"M", "i", "s", "s", "i", "o", "n">>,
      <<"V", "a", "l", "e", "n", "c", "i", "a">> }
Types ==
    { << <<"H", "w", "y">>, <<"h", "w", "y">> >>,
      << <<"A", "v", "e">>, <<"a", "v", "e">> >>,
      << <<"S", "t">>, <<"s", "t">> >> }
TypeWords ==
    { << <<"A", "v", "e", "n", "u", "e">>, <<"a", "v", "e">> >>,
      << <<"B", "o", "u", "l", "e", "v", "a", "r", "d">>, <<"b", "l", "v", "d">> >>,
      << <<"H", "w", "y">>, <<"h", "w", "y">> >> }
Cities ==
    { <<"S", "e", "b", "a", "s", "t", "o", "p", "o", "l">>,
      <<"P", "o", "r", "t", "l", "a", "n", "d">>,
      <<"S", "a", "n", " ", "F", "r", "a", "n", "c", "i", "s", "c", "o">> }
StateCodes ==
    { <<"C", "A">>,
      <<"O", "R">> }
Zips ==
    { <<"9", "5", "4", "7", "2">>,
      <<"9", "7", "2", "0", "1">> }
Plus4s ==
    { <<"1", "2", "3", "4">> }
BoxMarkers ==
    { <<"P", "O", " ", "B", "o", "x">>,
      <<"P", ".", "O", ".", " ", "B", "o", "x">>,
      <<"P", "o", "s", "t", " ", "O", "f", "f", "i", "c", "e", " ", "B", "o", "x">> }
BoxNumbers ==
    { <<"5", "6", "7", "8">>,
      <<"1", "2", "3", "4", "5">> }
BoxCities == Cities \cup { <<"N", "e", "w", " ", "Y", "o", "r", "k">> }
BoxStates == StateCodes \cup { <<"N", "Y">> }
BoxZips == Zips \cup { <<"1", "0", "0", "0", "1">> }

NoShape ==
    [ fn |-> "", kind |-> "", marker |-> EmptyString, number |-> EmptyString, dir |-> NoWord, name |-> EmptyString,
      type |-> NoWord, name2 |-> EmptyString, type2 |-> NoWord, city |-> EmptyString,
      state |-> EmptyString, zip |-> EmptyString, plus4 |-> EmptyString,
      dir2 |-> NoWord, unit |-> NoWord, tail |-> EmptyString ]

\* <number> <directional> <name> <street-type> <city> <state> <zip5>
FullShapes ==
    { [ NoShape EXCEPT !.fn = "ParseAddress", !.kind = "full", !.number = n, !.dir = d,
                       !.name = a, !.type = t, !.city = c, !.state = s, !.zip = z ] :
        n \in Numbers, d \in Directionals, a \in Names, t \in Types, c \in Cities,
        s \in StateCodes, z \in Zips }

\* <number> <name> <street-type word>, <city>, <state> <zip5>-<plus4>
CommaShapes ==
    { [ NoShape EXCEPT !.fn = "ParseAddress", !.kind = "comma", !.number = n, !.name = a,
                       !.type = t, !.city = c, !.state = s, !.zip = z, !.plus4 = p ] :
        n \in Numbers, a \in Names, t \in TypeWords, c \in Cities, s \in StateCodes,
        z \in Zips, p \in Plus4s }

\* <number> <name> <type>[ <directional>], <zip5>
CommaZipShapes ==
    { [ NoShape EXCEPT !.fn = "ParseAddress", !.kind = "comma_zip", !.number = n, !.name = a,
                       !.type = t, !.dir = d, !.zip = z ] :
        n \in Numbers, a \in Names, t \in Types, d \in Directionals \cup { NoWord }, z \in Zips }

\* <name> <type> & <name>[ <type>]
AmpersandShapes ==
    { [ NoShape EXCEPT !.fn = "ParseIntersection", !.kind = "ampersand", !.name = a, !.type = t,
                       !.name2 = b, !.type2 = u ] :
        a \in CrossNames, t \in Types, b \in CrossNames, u \in Types \cup { NoWord } }

\* <name> <type> and <name> <type>, <city> <state>
LocalityShapes ==
    { [ NoShape EXCEPT !.fn = "ParseIntersection", !.kind = "locality", !.name = a, !.type = t,
                       !.name2 = b, !.type2 = u, !.city = c, !.state = s ] :
        a \in CrossNames, t \in Types, b \in CrossNames, u \in Types, c \in Cities, s \in StateCodes }

\* <number> <name> <street-type of two letters>
StreetShapes ==
    { [ NoShape EXCEPT !.fn = "ParseAddress", !.kind = "street", !.number = n, !.name = a,
                       !.type = t ] :
        n \in Numbers \cup { <<"1", "2", "3">> }, a \in StreetNames, t \in ShortTypes }

\* [<number>] <directional> <name> <type> <directional>, and a directional
\* that is the only word after the number
DirectionalShapes ==
    { [ NoShape EXCEPT !.fn = "ParseAddress", !.kind = "directionals", !.number = n, !.dir = d,
                       !.name = a, !.type = t, !.dir2 = e ] :
        n \in { EmptyString, <<"1", "2", "3">> }, d \in DirWords, a \in StreetNames,
        t \in { << <<"S", "t">>, <<"s", "t">> >>, << <<"A", "v", "e">>, <<"a", "v", "e">> >> },
        e \in DirWords }
      \cup
    { [ NoShape EXCEPT !.fn = "ParseAddress", !.kind = "directionals", !.number = n, !.dir = d ] :
        n \in { EmptyString, <<"1", "2", "3">> }, d \in DirWords }

\* <number> <name> <last word>, <city>, <state>, and without the city and
\* the state when the last word has more than two letters
LastWordShapes ==
    { [ NoShape EXCEPT !.fn = "ParseAddress", !.kind = "last_word", !.number = n, !.name = a,
                       !.type = w, !.city = c[1], !.state = c[2] ] :
        n \in { <<"1", "2", "3">> }, a \in StreetNames, w \in LastWords,
        c \in { << <<"P", "o", "r", "t", "l", "a", "n", "d">>, <<"O", "R">> >>,
                << EmptyString, EmptyString >> } }
      \ { g \in { [ NoShape EXCEPT !.fn = "ParseAddress", !.kind = "last_word",
                                     !.number = <<"1", "2", "3">>, !.name = a, !.type = w ] :
                      a \in StreetNames, w \in LastWords } : Len(g.type[1]) = 2 }

\* <name>[ <last word>] and <name>[ <last word>]
CrossShapes ==
    { [ NoShape EXCEPT !.fn = "ParseIntersection", !.kind = "cross", !.name = a, !.type = w,
                       !.name2 = b, !.type2 = v ] :
        a \in StreetNames, w \in LastWords \cup { NoLastWord },
        b \in StreetNames, v \in LastWords \cup { NoLastWord } }

\* <number> <name> <type>, <city>, <state> <zip5> and <number> <name> <type>
\* <zip5>, with a street number of five digits or of three
FiveDigitShapes ==
    { [ NoShape EXCEPT !.fn = "ParseAddress", !.kind = "five_digits", !.number = n, !.name = a,
                       !.type = << <<"A", "v", "e">>, <<"a", "v", "e">> >>,
                       !.city = c[1], !.state = c[2], !.zip = z ] :
        n \in { <<"1", "2", "3", "4", "5">>, <<"7", "8", "9">> }, a \in StreetNames,
        c \in { << <<"P", "o", "r", "t", "l", "a", "n", "d">>, <<"O", "R">> >>,
                << EmptyString, EmptyString >> },
        z \in Zips }

\* <number> <name> <type>[ <unit keyword>[ <unit number>]], with names that
\* begin with a unit keyword (fl, unit, apt, ste) and one that does not
UnitShapes ==
    { [ NoShape EXCEPT !.fn = "ParseAddress", !.kind = "unit", !.number = <<"1", "2", "3">>,
                       !.name = a, !.type = << <<"A", "v", "e">>, <<"a", "v", "e">> >>,
                       !.unit = u ] :
        a \in { <<"F", "l", "o", "w", "e", "r">>, <<"U", "n", "i", "t", "y">>,
                <<"A", "p", "t", "o", "s">>, <<"S", "t", "e", "w", "a", "r", "t">>,
                <<"O", "a", "k">> },
        u \in { NoWord,
                << <<"A", "p", "t">>, <<"4">> >>,
                << <<"S", "u", "i", "t", "e">>, <<"5", "0", "0">> >>,
                << <<"R", "e", "a", "r">>, EmptyString >> } }

\* <number> <name> <type> <city> <state>[ <country>]
TailShapes ==
    { [ NoShape EXCEPT !.fn = "ParseAddress", !.kind = "tail", !.number = <<"1", "2", "3">>,
                       !.name = a, !.type = t,
                       !.city = <<"S", "p", "r", "i", "n", "g", "f", "i", "e", "l", "d">>,
                       !.state = <<"I", "L">>, !.tail = x ] :
        a \in StreetNames,
        t \in { << <<"S", "t">>, <<"s", "t">> >>, << <<"A", "v", "e">>, <<"a", "v", "e">> >> },
        x \in { EmptyString, <<"U", "S", "A">> } }

\* <PO Box marker> <digits> <city> <state> <zip5>
PoBoxShapes ==
    { [ NoShape EXCEPT !.fn = "ParseLocation", !.kind = "po_box", !.marker = m, !.number = n,
                       !.city = c, !.state = s, !.zip = z ] :
        m \in BoxMarkers, n \in BoxNumbers, c \in BoxCities, s \in BoxStates, z \in BoxZips }

\* <PO Box marker> <digits>[,] <city with a word of two letters>[,] <state> <zip5>
PoBoxWordShapes ==
    { [ NoShape EXCEPT !.fn = "ParseLocation", !.kind = "po_box_words", !.marker = m,
                       !.number = <<"1", "2">>, !.city = c[1], !.state = c[2], !.zip = c[3],
                       !.tail = t ] :
        m \in BoxMarkers,
        c \in { << <<"S", "t", " ", "L", "o", "u", "i", "s">>, <<"M", "O">>, <<"6", "3", "1", "0", "1">> >>,
                << <<"L", "a", " ", "J", "o", "l", "l", "a">>, <<"C", "A">>, <<"9", "2", "0", "3", "7">> >> },
        t \in { EmptyString, << "," >> } }

\* field values of a ParsedAddress: blank, padded, of mixed case, of several
\* words, with a rune of two bytes inside or at the head of a word, with a byte
\* that is not UTF-8
FieldValues ==
    { EmptyString,
      <<" ", " ">>,
      <<"c", "a">>,
      <<" ", "m", "A", "I", "N", " ", " ", "s", "t", "\t">>,
      <<"S", "a", "n", " ", "F", "r", "a", "n", "c", "i", "s", "c", "o">>,
      <<"C", "A", "F">> \o << ByteC3, Byte89 >>,
      << ByteC3, Byte89 >> \o <<"l", "a", "n">>,
      <<"a">> \o << ByteFF >> }

\* the ParsedAddress values Normalize is called on: the street, the city, the
\* state and the eight trimmed fields vary
AddressValues ==
    { [ Number |-> o, Prefix |-> o, Street |-> st, Type |-> o, Suffix |-> o,
        SecUnitType |-> o, SecUnitNum |-> o, City |-> c, State |-> s, ZIP |-> o, Plus4 |-> o ] :
        st \in FieldValues, c \in FieldValues, s \in FieldValues, o \in FieldValues }

\* a call of a method of a ParsedAddress value
ValueShape == [ NoShape EXCEPT !.fn = "Normalize", !.kind = "value" ]

\* a call of SanitizeInput
SanitizeShape == [ NoShape EXCEPT !.fn = "SanitizeInput", !.kind = "raw" ]

\* the arguments of SanitizeInput: the inputs of the guard, and texts whose
\* tokens meet the working bound
SanitizeInputs ==
    GuardInputs \cup
    { <<"1", "2", "3", " ", " ", " ", "M", "a", "i", "n", " ", " ", " ", " ", "S", "t", " ", " ", " ">>,
      Repeat("A", MaxAddressLength + 100),
      Repeat("A", MaxAddressLength - 1) \o <<" ", "B">>,
      Repeat("A", MaxAddressLength - 1) \o <<"\t", "\n", "B", "C">>,
      Repeat("A", MaxAddressLength - 2) \o <<" ", "B", " ", "C">>,
      <<" ">> \o Repeat("A", MaxAddressLength) \o <<" ">>,
      << NUL >> \o Repeat("A", MaxAddressLength + 1) }

\* a call of ParseInformalAddress
InformalShape == [ NoShape EXCEPT !.fn = "ParseInformalAddress", !.kind = "informal" ]

\* the arguments of ParseInformalAddress: texts with a city, a state, a ZIP or
\* a unit and no street, texts with nothing to capture, and an address
InformalInputs ==
    { <<"S", "p", "r", "i", "n", "g", "f", "i", "e", "l", "d", ",", " ", "I", "L">>,
      <<"P", "o", "r", "t", "l", "a", "n", "d", ",", " ", "O", "R", " ", "9", "7", "2", "0", "1">>,
      <<"S", "e", "b", "a", "s", "t", "o", "p", "o", "l", " ", "C", "A">>,
      <<"9", "7", "2", "0", "1">>,
      <<"A", "p", "t", " ", "4">>,
      <<",", " ", "m", "a", "i", "n", " ", "s", "t", "r", "e", "e", "t">>,
      <<"A", "v", "e", "n", "u", "e">>,
      <<"N">>,
      <<"d", "o", "w", "n", "t", "o", "w", "n">>,
      <<"1", "2", "3", " ", "O", "a", "k", " ", "A", "v", "e">> }

\* an argument that is not built from a shape
Raw == [ NoShape EXCEPT !.fn = "ParseLocation", !.kind = "raw" ]

Shapes ==
    FullShapes \cup CommaShapes \cup CommaZipShapes \cup AmpersandShapes \cup LocalityShapes
      \cup StreetShapes \cup DirectionalShapes \cup LastWordShapes \cup CrossShapes
      \cup FiveDigitShapes \cup UnitShapes \cup TailShapes

\* the non-empty words, separated by single spaces
Spaced(words) == Join(SelectSeq(words, LAMBDA w : w # EmptyString), << " " >>)

\* the text of a shape
Render(g) ==
    CASE g.kind = "full" ->
           Spaced(<< g.number, g.dir[1], g.name, g.type[1], g.city, g.state, g.zip >>)
      [] g.kind = "comma" ->
           Spaced(<< g.number, g.name, g.type[1] >>) \o << ",", " " >> \o g.city
             \o << ",", " " >> \o g.state \o << " " >> \o g.zip \o << "-" >> \o g.plus4
      [] g.kind = "comma_zip" ->
           Spaced(<< g.number, g.name, g.type[1], g.dir[1] >>) \o << ",", " " >> \o g.zip
      [] g.kind = "ampersand" ->
           Spaced(<< g.name, g.type[1], << "&" >>, g.name2, g.type2[1] >>)
      [] g.kind = "locality" ->
           Spaced(<< g.name, g.type[1], <<"a", "n", "d">>, g.name2, g.type2[1] >>)
             \o << ",", " " >> \o g.city \o << " " >> \o g.state
      [] g.kind = "street" ->
           Spaced(<< g.number, g.name, g.type[1] >>)
      [] g.kind = "directionals" ->
           Spaced(<< g.number, g.dir[1], g.name, g.type[1], g.dir2[1] >>)
      [] g.kind = "last_word" ->
           Spaced(<< g.number, g.name, g.type[1] >>)
             \o (IF g.city = EmptyString THEN EmptyString
                 ELSE << ",", " " >> \o g.city \o << ",", " " >> \o g.state)
      [] g.kind = "cross" ->
           Spaced(<< g.name, g.type[1], <<"a", "n", "d">>, g.name2, g.type2[1] >>)
      [] g.kind = "five_digits" ->
           Spaced(<< g.number, g.name, g.type[1] >>)
             \o (IF g.city = EmptyString THEN << " " >>
                 ELSE << ",", " " >> \o g.city \o << ",", " " >> \o g.state \o << " " >>)
             \o g.zip
      [] g.kind = "unit" ->
           Spaced(<< g.number, g.name, g.type[1], g.unit[1], g.unit[2] >>)
      [] g.kind = "tail" ->
           Spaced(<< g.number, g.name, g.type[1], g.city, g.state, g.tail >>)
      [] g.kind = "po_box" ->
           Spaced(<< g.marker, g.number, g.city, g.state, g.zip >>)
      [] g.kind = "po_box_words" ->
           g.marker \o << " " >> \o g.number \o g.tail \o << " " >> \o g.city \o g.tail
             \o << " " >> \o g.state \o << " " >> \o g.zip
      [] g.kind \in { "value", "informal" } -> EmptyString

\* ------------------------------------------------------- Parser.ParseLocation

VARIABLES
    input,      \* the argument of the call
    given,      \* how the argument was built
    pc,         \* the position of the call
    sanitized,  \* ValidateAndSanitize's string
    err,        \* the error returned
    result,     \* the *ParseResult returned, Nil before the return
    ret,        \* the value the last decomposer returned
    tried,      \* the decomposers called so far, with what each returned
    parser,     \* the fields of the Parser the calls share
    calls,      \* the locals of each goroutine's call, as of when it last ran
    running,    \* the goroutine whose call the variables above belong to
    env,        \* the environment variables of the server process
    config,     \* what config.Load returned to main, Nil before
    response    \* the status and body the handler wrote last, Nil before

vars == << input, given, pc, sanitized, err, result, ret, tried, parser, calls, running,
           env, config, response >>

\* Parser.init on the fields p
init(p) ==
    IF p.initialized THEN p
    ELSE [ initialized |-> TRUE, patterns |-> "compiled" ]

\* NewParser
NewParser == init([ initialized |-> FALSE, patterns |-> Nil ])

\* the package used as a library: no server process
NoServer ==
    /\ env = NoEnv
    /\ config = Nil
    /\ response = Nil

\* one call, with no other goroutine
Alone ==
    /\ parser = NewParser
    /\ calls = << >>
    /\ running = 1
    /\ NoServer

Init ==
    /\ given \in { Raw } \cup PoBoxShapes \cup PoBoxWordShapes
    /\ input \in IF given = Raw THEN Inputs ELSE { Render(given) }
    /\ pc = "start"
    /\ sanitized = EmptyString
    /\ err = NoError
    /\ result = Nil
    /\ ret = Nil
    /\ tried = << >>
    /\ Alone

ParseResult(type, address, intersection) ==
    [ Type |-> type, Address |-> address, Intersection |-> intersection ]

\* a decomposer was called and returned r (or panicked)
Called(fn, r) == tried' = Append(tried, [ fn |-> fn, ret |-> r ]) /\ ret' = r

\* the call returns result r
Return(r) == result' = r /\ pc' = "done"

\* lines 73-76: an error ends the call with no result
Validated(vs) ==
    /\ sanitized' = vs[1]
    /\ err' = vs[2]
    /\ pc' = IF vs[2] # NoError THEN "done" ELSE "intersection"

\* lines 72-76
Validate ==
    /\ pc = "start"
    /\ Validated(ValidateAndSanitize(input))
    /\ UNCHANGED << env, config, response, parser, calls, running, input, given, result, ret, tried >>

\* IntersectionReturned without the test on Street1
IntersectionReturnedAnyStreet(intersection) ==
    /\ Called("ParseIntersection", intersection)
    /\ IF intersection # Nil
       THEN Return(ParseResult("intersection", Nil, intersection))
       ELSE pc' = "po_box" /\ UNCHANGED result

\* lines 80-86
IntersectionReturned(intersection) ==
    /\ Called("ParseIntersection", intersection)
    /\ IF intersection # Nil /\ intersection.Street1 # EmptyString
       THEN Return(ParseResult("intersection", Nil, intersection))
       ELSE pc' = "po_box" /\ UNCHANGED result

\* lines 78-87
TryIntersection ==
    /\ pc = "intersection"
    /\ IF MatchString(CornerMatches(sanitized))
       THEN IntersectionReturned(ParseIntersection(sanitized))
       ELSE pc' = "po_box" /\ UNCHANGED << result, ret, tried >>
    /\ UNCHANGED << env, config, response, parser, calls, running, input, given, sanitized, err >>

\* lines 91-97
PoBoxReturned(addr) ==
    /\ Called("ParsePoAddress", addr)
    /\ IF addr # Nil /\ ~IsEmpty(addr)
       THEN Return(ParseResult("po_box", addr, Nil))
       ELSE pc' = "standard" /\ UNCHANGED result

\* lines 89-98
TryPoBox ==
    /\ pc = "po_box"
    /\ IF Matched(PoBoxMatch(sanitized))
       THEN PoBoxReturned(ParsePoAddress(sanitized))
       ELSE pc' = "standard" /\ UNCHANGED << result, ret, tried >>
    /\ UNCHANGED << env, config, response, parser, calls, running, input, given, sanitized, err >>

\* StandardReturned without the IsEmpty test
StandardReturnedUnchecked(addr) ==
    /\ Called("ParseAddress", addr)
    /\ IF addr = Panic THEN pc' = "panicked" /\ UNCHANGED result
       ELSE IF addr # Nil
       THEN Return(ParseResult("address", addr, Nil))
       ELSE pc' = "informal" /\ UNCHANGED result

\* lines 101-107
StandardReturned(addr) ==
    /\ Called("ParseAddress", addr)
    /\ IF addr = Panic THEN pc' = "panicked" /\ UNCHANGED result
       ELSE IF addr # Nil /\ ~IsEmpty(addr)
       THEN Return(ParseResult("address", addr, Nil))
       ELSE pc' = "informal" /\ UNCHANGED result

\* lines 100-107
TryStandard ==
    /\ pc = "standard"
    /\ StandardReturned(ParseAddress(sanitized))
    /\ UNCHANGED << env, config, response, parser, calls, running, input, given, sanitized, err >>

\* lines 110-120
InformalReturned(addr) ==
    /\ Called("ParseInformalAddress", addr)
    /\ IF addr = Panic THEN pc' = "panicked" /\ UNCHANGED result
       ELSE IF addr # Nil /\ ~IsEmpty(addr)
       THEN Return(ParseResult("address", addr, Nil))
       ELSE Return(ParseResult("none", Nil, Nil))

\* lines 109-120
TryInformal ==
    /\ pc = "informal"
    /\ InformalReturned(ParseInformalAddress(sanitized))
    /\ UNCHANGED << env, config, response, parser, calls, running, input, given, sanitized, err >>

Next == Validate \/ TryIntersection \/ TryPoBox \/ TryStandard \/ TryInformal

Spec == Init /\ [][Next]_vars

\* ------------------------------------------- concurrent calls of ParseLocation

\* Parser.ParseLocation as a function of its argument: << result, err >>
ParseLocation(address) ==
    Let(ValidateAndSanitize(address), LAMBDA vs :
    IF vs[2] # NoError THEN << Nil, vs[2] >>
    ELSE
    Let(IF MatchString(CornerMatches(vs[1])) THEN ParseIntersection(vs[1]) ELSE Nil, LAMBDA x :
    IF x # Nil /\ x.Street1 # EmptyString
    THEN << ParseResult("intersection", Nil, x), NoError >>
    ELSE
    Let(IF Matched(PoBoxMatch(vs[1])) THEN ParsePoAddress(vs[1]) ELSE Nil, LAMBDA po :
    IF po # Nil /\ ~IsEmpty(po)
    THEN << ParseResult("po_box", po, Nil), NoError >>
    ELSE
    Let(ParseAddress(vs[1]), LAMBDA a :
    IF a = Panic THEN << Panic, NoError >>
    ELSE IF a # Nil /\ ~IsEmpty(a)
    THEN << ParseResult("address", a, Nil), NoError >>
    ELSE
    Let(ParseInformalAddress(vs[1]), LAMBDA i :
    IF i = Panic THEN << Panic, NoError >>
    ELSE IF i # Nil /\ ~IsEmpty(i)
    THEN << ParseResult("address", i, Nil), NoError >>
    ELSE << ParseResult("none", Nil, Nil), NoError >>)))))

\* the goroutines that share the Parser
MaxGoroutines == 2
Goroutines == 1..MaxGoroutines

\* the addresses of the goroutines, and the empty one
ConcurrentInputs ==
    { <<"1", "2", "3", " ", "M", "a", "i", "n", " ", "S", "t">>,
      <<"P", "O", " ", "B", "o", "x", " ", "1", "2", "3", "4">>,
      <<"M", "i", "s", "s", "i", "o", "n", " ", "S", "t", " ", "a", "n", "d", " ",
        "V", "a", "l", "e", "n", "c", "i", "a", " ", "S", "t">>,
      <<",">>,
      EmptyString }

ConcurrentShape == [ NoShape EXCEPT !.fn = "ParseLocation", !.kind = "concurrent" ]

\* the locals of a call that has not begun
Fresh(address) ==
    [ input |-> address, pc |-> "start", sanitized |-> EmptyString, err |-> NoError,
      result |-> Nil, ret |-> Nil, tried |-> << >> ]

\* the locals of the running call
Locals ==
    [ input |-> input, pc |-> pc, sanitized |-> sanitized, err |-> err,
      result |-> result, ret |-> ret, tried |-> tried ]

\* the running call owns the locals c
Resume(c) ==
    /\ input' = c.input
    /\ pc' = c.pc
    /\ sanitized' = c.sanitized
    /\ err' = c.err
    /\ result' = c.result
    /\ ret' = c.ret
    /\ tried' = c.tried

\* go func() { p.ParseLocation(addr) }: every goroutine holds the same Parser
InitConcurrent ==
    /\ given = ConcurrentShape
    /\ NoServer
    /\ parser = NewParser
    /\ calls \in [ Goroutines -> { Fresh(a) : a \in ConcurrentInputs } ]
    /\ running = 1
    /\ input = calls[1].input
    /\ pc = "start"
    /\ sanitized = EmptyString
    /\ err = NoError
    /\ result = Nil
    /\ ret = Nil
    /\ tried = << >>

\* Switch with the sanitized string kept in one place for every call
SwitchSharedSanitized(g) ==
    /\ given = ConcurrentShape
    /\ g # running
    /\ calls' = [ calls EXCEPT ![running] = Locals ]
    /\ running' = g
    /\ input' = calls[g].input
    /\ pc' = calls[g].pc
    /\ err' = calls[g].err
    /\ result' = calls[g].result
    /\ ret' = calls[g].ret
    /\ tried' = calls[g].tried
    /\ UNCHANGED << parser, given, sanitized, env, config, response >>

\* the scheduler takes the running goroutine off between two steps of its
\* call and lets goroutine g go on
Switch(g) ==
    /\ given = ConcurrentShape
    /\ g # running
    /\ calls' = [ calls EXCEPT ![running] = Locals ]
    /\ running' = g
    /\ Resume(calls[g])
    /\ UNCHANGED << parser, given, env, config, response >>

NextConcurrent ==
    \/ Validate \/ TryIntersection \/ TryPoBox \/ TryStandard \/ TryInformal
    \/ \E g \in Goroutines : Switch(g)

SpecConcurrent == InitConcurrent /\ [][NextConcurrent]_vars

\* a decomposer is about to be called on the text of a shape, SanitizeInput on
\* a string, or Normalize on a ParsedAddress value (held in ret, the receiver
\* it rewrites in place)
InitCall ==
    /\ given \in Shapes \cup { ValueShape, SanitizeShape, InformalShape }
    /\ input \in IF given = SanitizeShape THEN SanitizeInputs
                 ELSE IF given = InformalShape THEN InformalInputs
                 ELSE { Render(given) }
    /\ pc = "call"
    /\ sanitized = EmptyString
    /\ err = NoError
    /\ result = Nil
    /\ ret \in IF given = ValueShape THEN AddressValues ELSE { Nil }
    /\ tried = << >>
    /\ Alone

\* p.ParseAddress(input)
CallParseAddress ==
    /\ pc = "call"
    /\ given.fn = "ParseAddress"
    /\ Called("ParseAddress", ParseAddress(input))
    /\ pc' = "returned"
    /\ UNCHANGED << env, config, response, parser, calls, running, input, given, sanitized, err, result >>

\* p.ParseIntersection(input)
CallParseIntersection ==
    /\ pc = "call"
    /\ given.fn = "ParseIntersection"
    /\ Called("ParseIntersection", ParseIntersection(input))
    /\ pc' = "returned"
    /\ UNCHANGED << env, config, response, parser, calls, running, input, given, sanitized, err, result >>

\* p.ParseInformalAddress(input)
CallParseInformalAddress ==
    /\ pc = "call"
    /\ given.fn = "ParseInformalAddress"
    /\ Called("ParseInformalAddress", ParseInformalAddress(input))
    /\ pc' = "returned"
    /\ UNCHANGED << env, config, response, parser, calls, running, input, given, sanitized, err, result >>

\* a.Normalize(), and once more on the value it left
CallNormalize ==
    /\ pc \in { "call", "normalized" }
    /\ given.fn = "Normalize"
    /\ Called("Normalize", Normalize(ret))
    /\ pc' = IF pc = "call" THEN "normalized" ELSE "returned"
    /\ UNCHANGED << env, config, response, parser, calls, running, input, given, sanitized, err, result >>

\* SanitizeInput(input)
CallSanitizeInput ==
    /\ pc = "call"
    /\ given.fn = "SanitizeInput"
    /\ sanitized' = SanitizeInput(input)
    /\ pc' = "returned"
    /\ UNCHANGED << env, config, response, parser, calls, running, input, given, err, result, ret, tried >>

NextCall ==
    \/ CallParseAddress
    \/ CallParseIntersection
    \/ CallParseInformalAddress
    \/ CallNormalize
    \/ CallSanitizeInput

SpecCall == InitCall /\ [][NextCall]_vars

\* ------------------------------------------------------------------ the server

\* the values the environment gives the five variables
Environments ==
    [ SERVER_PORT : { EmptyString, <<"0">>, <<"6", "5", "5", "3", "5">>,
                      <<"6", "5", "5", "3", "6">>, <<"a", "b", "c">> },
      SERVER_READ_TIMEOUT : { EmptyString, <<"0", "s">>, <<"-", "5", "s">>, <<"3", "0", "s">>,
                              <<"s", "o", "o", "n">> },
      SERVER_WRITE_TIMEOUT : { EmptyString, <<"0">> },
      SECURITY_MAX_INPUT_LENGTH : { EmptyString, <<"9", "9">>, <<"1", "0", "0">>, <<"2", "0", "0">>,
                                    <<"1", "0", "0", "0", "0", "0">>,
                                    <<"1", "0", "0", "0", "0", "1">> },
      LOG_LEVEL : { EmptyString, <<"d", "e", "b", "u", "g">>, <<"t", "r", "a", "c", "e">> } ]

\* a body that is not the JSON of a parseRequest
Malformed == [ address |-> EmptyString, type |-> "", malformed |-> TRUE ]

\* the decoded parseRequest of a body
Request(address, type) == [ address |-> address, type |-> type, malformed |-> FALSE ]

RequestTypes == { "", "auto", "standard", "informal", "intersection", "po_box" }

RequestAddresses ==
    { EmptyString,
      <<"1", "2", "3", " ", "M", "a", "i", "n", " ", "S", "t">>,
      <<"P", "O", " ", "B", "o", "x", " ", "1", "2", "3", "4">>,
      <<"M", "i", "s", "s", "i", "o", "n", " ", "S", "t", " ", "a", "n", "d", " ",
        "V", "a", "l", "e", "n", "c", "i", "a", " ", "S", "t">>,
      <<"1", "2", "3", " ", "M", "a", "i", "n">> \o << NUL >> \o <<"S", "t">> }

\* the bodies posted to /api/v1/parse: every type with every short address,
\* and an address longer than the least cap a Config may hold and one longer
\* than MaxInputLength, with the type "auto"
Requests ==
    { Malformed }
      \cup { Request(a, ty) : a \in RequestAddresses, ty \in RequestTypes }
      \cup { Request(a, "auto") : a \in { Repeat("A", 101), Repeat("A", MaxInputLength + 1) } }

ServerShape == [ NoShape EXCEPT !.fn = "parseHandler" ]

\* main, before config.Load
InitServer ==
    /\ env \in Environments
    /\ config = Nil
    /\ response = Nil
    /\ given = ServerShape
    /\ input = EmptyString
    /\ pc = "main"
    /\ sanitized = EmptyString
    /\ err = NoError
    /\ result = Nil
    /\ ret = Nil
    /\ tried = << >>
    /\ parser = Nil
    /\ calls = << >>
    /\ running = 1

\* main, lines 21-31: log.Fatalf ends the process when Load fails
LoadConfig ==
    /\ pc = "main"
    /\ config' = Load(env)
    /\ IF config'.err # NoError
       THEN pc' = "fatal" /\ UNCHANGED parser
       ELSE pc' = "serving" /\ parser' = NewParser
    /\ UNCHANGED << env, response, input, given, sanitized, err, result, ret, tried, calls, running >>

\* respondJSON
Respond(status, success, error, r) ==
    [ status |-> status, body |-> [ Success |-> success, Error |-> error, Result |-> r ] ]

\* parseHandler, lines 113-132: the decomposer the type names is called on the
\* address as it was sent; every other type goes to ParseLocation
Routed(req) ==
    CASE req.type = "standard" ->
           << ParseResult("address", ParseAddress(req.address), Nil), NoError >>
      [] req.type = "informal" ->
           << ParseResult("address", ParseInformalAddress(req.address), Nil), NoError >>
      [] req.type = "intersection" ->
           << ParseResult("intersection", Nil, ParseIntersection(req.address)), NoError >>
      [] req.type = "po_box" ->
           << ParseResult("po_box", ParsePoAddress(req.address), Nil), NoError >>
      [] OTHER -> ParseLocation(req.address)

\* the decomposer parseHandler itself calls for a type, "" if none
Direct(type) ==
    CASE type = "standard" -> "ParseAddress"
      [] type = "informal" -> "ParseInformalAddress"
      [] type = "intersection" -> "ParseIntersection"
      [] type = "po_box" -> "ParsePoAddress"
      [] OTHER -> ""

\* parseHandler, lines 134-149
Answered(re) ==
    /\ result' = re[1]
    /\ err' = re[2]
    /\ response' = IF re[2] # NoError
                   THEN Respond(400, FALSE, << "Parse error: " >> \o re[2].text, Nil)
                   ELSE Respond(200, TRUE, EmptyString, re[1])

\* parseHandler on the body req of the request the model follows; input and
\* given.kind keep the address and the type it was sent, tried the decomposer
\* the handler called itself
ParseHandler(req) ==
    /\ pc = "serving"
    /\ pc' = "responded"
    /\ input' = req.address
    /\ given' = [ given EXCEPT !.kind = req.type ]
    /\ IF req.malformed
       THEN /\ response' = Respond(400, FALSE, << "Invalid request format" >>, Nil)
            /\ UNCHANGED << result, err, tried >>
       ELSE IF req.address = EmptyString
       THEN /\ response' = Respond(400, FALSE, << "Address field is required" >>, Nil)
            /\ UNCHANGED << result, err, tried >>
       ELSE /\ Answered(Routed(req))
            /\ tried' = IF Direct(req.type) = "" THEN << >>
                        ELSE << [ fn |-> Direct(req.type), arg |-> req.address ] >>
    /\ UNCHANGED << env, config, sanitized, ret, parser, calls, running >>

NextServer == LoadConfig \/ \E req \in Requests : ParseHandler(req)

SpecServer == InitServer /\ [][NextServer]_vars

\* --------------------------------------------------------------- properties

HasNul(s) == \E i \in 1..Len(s) : s[i] = NUL
OtherwiseValid(s) == s # << >> /\ ValidString(s) /\ ~HasNul(s)
Acceptable(s) == OtherwiseValid(s) /\ Len(s) <= MaxInputLength

Returned == pc = "done" /\ err = NoError

Attempted(fn) == \E k \in 1..Len(tried) : tried[k].fn = fn

\* the position of a decomposer in the cascade, and the type its success gives
Rank(fn) ==
    CASE fn = "ParseIntersection" -> 1
      [] fn = "ParsePoAddress" -> 2
      [] fn = "ParseAddress" -> 3
      [] fn = "ParseInformalAddress" -> 4
TypeOf(fn) ==
    CASE fn = "ParseIntersection" -> "intersection"
      [] fn = "ParsePoAddress" -> "po_box"
      [] fn = "ParseAddress" -> "address"
      [] fn = "ParseInformalAddress" -> "address"

\* the attempt t gave the result ParseLocation returns
Succeeded(t) ==
    IF t.fn = "ParseIntersection" THEN t.ret # Nil /\ t.ret.Street1 # EmptyString
    ELSE t.ret # Nil /\ t.ret # Panic /\ ~IsEmpty(t.ret)

BothMarkers == MatchString(CornerMatches(sanitized)) /\ Matched(PoBoxMatch(sanitized))

\* C1: ParseLocation never panics (no decomposer it reaches indexes out of
\* range), and for every input that is non-empty, valid UTF-8, at most
\* MaxInputLength bytes long and free of NUL bytes it returns a non-nil
\* ParseResult and a nil error.
C1_Totality ==
    /\ pc \in { "start", "intersection", "po_box", "standard", "informal", "done" }
    /\ \A k \in 1..Len(tried) : tried[k].ret # Panic
    /\ (pc # "start" /\ Acceptable(input)) => err = NoError
    /\ (pc = "done" /\ Acceptable(input)) => (result # Nil /\ err = NoError)

\* an accepted input went through the whole cascade, down to the informal
\* decomposer, and the call returned its result
C1_Witness ==
    /\ pc = "done"
    /\ Acceptable(input)
    /\ Attempted("ParseAddress")
    /\ Attempted("ParseInformalAddress")
    /\ result # Nil
    /\ result.Type = "address"

\* C2 (amended): ValidateInput makes its four tests in the order empty, UTF-8,
\* length, NUL and returns the error of the first that fails: the empty string
\* yields ErrInputEmpty, a non-empty string that is not valid UTF-8 yields
\* ErrInvalidUTF8, a valid string longer than MaxInputLength yields an error
\* wrapping ErrInputTooLong, a valid string within the length with a NUL byte
\* yields ErrInvalidCharacters, every other string is accepted; and
\* ParseLocation("") returns ErrInputEmpty and no result.
C2_FirstFailingTest ==
    pc # "start" =>
        /\ input = << >> => (err = ErrInputEmpty /\ result = Nil)
        /\ (input # << >> /\ ~ValidString(input)) => err = ErrInvalidUTF8
        /\ (ValidString(input) /\ Len(input) > MaxInputLength) =>
              (err.kind = "ErrInputTooLong" /\ err # ErrInputTooLong)
        /\ (ValidString(input) /\ Len(input) <= MaxInputLength /\ HasNul(input)) =>
              err = ErrInvalidCharacters
        /\ Acceptable(input) => err = NoError

\* an input that is too long and holds a NUL byte was refused for its length
C2_Witness ==
    /\ pc = "done"
    /\ HasNul(input)
    /\ Len(input) > MaxInputLength
    /\ err.kind = "ErrInputTooLong"

\* C2 as stated: each of the four shapes yields its own error, whatever else
\* is wrong with the input.
C2_EachShapeItsError ==
    pc # "start" =>
        /\ input = << >> => err.kind = "ErrInputEmpty"
        /\ ~ValidString(input) => err.kind = "ErrInvalidUTF8"
        /\ Len(input) > MaxInputLength => err.kind = "ErrInputTooLong"
        /\ HasNul(input) => err.kind = "ErrInvalidCharacters"
        /\ Acceptable(input) => err = NoError

\* C3: an otherwise valid input of exactly MaxInputLength bytes is accepted and
\* one of MaxInputLength + 1 bytes is refused as too long; ParseLocation returns
\* an error if and only if ValidateInput fails on the raw input; with an error
\* there is no result; and no decomposer is called before validation succeeded.
C3_LengthBoundary ==
    /\ (pc # "start" /\ OtherwiseValid(input) /\ Len(input) = MaxInputLength) => err = NoError
    /\ (pc # "start" /\ OtherwiseValid(input) /\ Len(input) = MaxInputLength + 1) =>
          err.kind = "ErrInputTooLong"
    /\ pc # "start" => (err # NoError <=> ValidateInput(input) # NoError)
    /\ pc = "start" => (err = NoError /\ tried = << >> /\ result = Nil)
    /\ err # NoError => (result = Nil /\ tried = << >> /\ pc = "done")
    /\ tried # << >> => (pc # "start" /\ err = NoError /\ Acceptable(input))

\* an input of exactly MaxInputLength bytes was accepted and parsed
C3_Witness ==
    /\ pc = "done"
    /\ Len(input) = MaxInputLength
    /\ err = NoError
    /\ result # Nil
    /\ tried # << >>

\* C4: the decomposers are tried in the order intersection, PO box, standard,
\* informal, each only after the ones before it failed, and the first success
\* gives the type; the intersection decomposer is tried exactly when the corner
\* pattern matches and the PO box decomposer, once the intersection is out,
\* exactly when the PO box pattern matches; an input with both markers is an
\* "intersection" if and only if ParseIntersection yields a non-empty Street1;
\* when all four fail the type is "none".
C4_CascadePriority ==
    /\ \A k \in 1..(Len(tried) - 1) :
          Rank(tried[k].fn) < Rank(tried[k + 1].fn) /\ ~Succeeded(tried[k])
    /\ Returned =>
          /\ tried # << >>
          /\ result.Type = IF Succeeded(tried[Len(tried)]) THEN TypeOf(tried[Len(tried)].fn)
                           ELSE "none"
          /\ ~Succeeded(tried[Len(tried)]) => tried[Len(tried)].fn = "ParseInformalAddress"
          /\ Attempted("ParseIntersection") <=> MatchString(CornerMatches(sanitized))
          /\ result.Type # "intersection" =>
                (Attempted("ParsePoAddress") <=> Matched(PoBoxMatch(sanitized)))
          /\ result.Type \notin { "intersection", "po_box" } => Attempted("ParseAddress")
          /\ Attempted("ParseInformalAddress") => Attempted("ParseAddress")
          /\ BothMarkers =>
                (result.Type = "intersection"
                   <=> ParseIntersection(sanitized).Street1 # EmptyString)

\* an input with both markers was classified as an intersection
C4_Witness ==
    /\ Returned
    /\ BothMarkers
    /\ result.Type = "intersection"
    /\ result.Intersection.Street1 # EmptyString

\* C5: every ParseResult returned has one of the four types and carries exactly
\* the variant of its type: an intersection and no address for "intersection",
\* an address that is not all-empty and no intersection for "address" and
\* "po_box", neither for "none".
C5_TaggedUnion ==
    Returned =>
        /\ result # Nil
        /\ result.Type \in { "address", "intersection", "po_box", "none" }
        /\ result.Type = "intersection" =>
              (result.Intersection # Nil /\ result.Address = Nil)
        /\ result.Type \in { "address", "po_box" } =>
              /\ result.Address # Nil
              /\ ~IsEmpty(result.Address)
              /\ result.Intersection = Nil
        /\ result.Type = "none" => (result.Address = Nil /\ result.Intersection = Nil)

\* a PO box result was returned, with its address and no intersection
C5_Witness ==
    /\ Returned
    /\ result # Nil
    /\ result.Type = "po_box"
    /\ result.Address # Nil
    /\ result.Address.SecUnitNum # EmptyString
    /\ result.Intersection = Nil

\* C6: for "<number> <directional> <name> <street-type> <city> <state> <zip5>"
\* ParseAddress returns the number, the directional as prefix, the name as
\* street, the type in its canonical form, the city (every word between the
\* street type and the state), the state and the ZIP.
C6_CommaFreeFull ==
    (pc = "returned" /\ given.kind = "full") =>
        /\ ret.Number = given.number
        /\ ret.Prefix = given.dir[2]
        /\ ret.Street = given.name
        /\ ret.Type = given.type[2]
        /\ ret.City = given.city
        /\ ret.State = given.state
        /\ ret.ZIP = given.zip

\* ParseAddress returned for "1005 N Gravenstein Hwy Sebastopol CA 95472"
C6_Witness ==
    /\ pc = "returned"
    /\ given.kind = "full"
    /\ input = <<"1", "0", "0", "5", " ", "N", " ", "G", "r", "a", "v", "e", "n", "s", "t", "e", "i", "n", " ", "H", "w", "y", " ", "S", "e", "b", "a", "s", "t", "o", "p", "o", "l", " ", "C", "A", " ", "9", "5", "4", "7", "2">>
    /\ ret.City = <<"S", "e", "b", "a", "s", "t", "o", "p", "o", "l">>
    /\ ret.Type = <<"h", "w", "y">>

\* C7: for "<number> <name> <street-type word>, <city>, <state> <zip5>-<plus4>"
\* ParseAddress returns the number, the name as street, the type in its
\* canonical form, the city, the state, the ZIP and the +4.
C7_CommaDelimitedPlus4 ==
    (pc = "returned" /\ given.kind = "comma") =>
        /\ ret.Number = given.number
        /\ ret.Street = given.name
        /\ ret.Type = given.type[2]
        /\ ret.City = given.city
        /\ ret.State = given.state
        /\ ret.ZIP = given.zip
        /\ ret.Plus4 = given.plus4

\* ParseAddress returned for "789 Oak Avenue, Portland, OR 97201-1234"
C7_Witness ==
    /\ pc = "returned"
    /\ given.kind = "comma"
    /\ input = <<"7", "8", "9", " ", "O", "a", "k", " ", "A", "v", "e", "n", "u", "e", ",", " ", "P", "o", "r", "t", "l", "a", "n", "d", ",", " ", "O", "R", " ", "9", "7", "2", "0", "1", "-", "1", "2", "3", "4">>
    /\ ret.Plus4 = <<"1", "2", "3", "4">>
    /\ ret.Type = <<"a", "v", "e">>

\* C8: for "<number> <name> <type>[ <directional>], <zip5>" ParseAddress
\* returns the number, the name as street, the type, the directional as suffix
\* when there is one, and the ZIP.
C8_CommaBeforeZip ==
    (pc = "returned" /\ given.kind = "comma_zip") =>
        /\ ret.Number = given.number
        /\ ret.Street = given.name
        /\ ret.Type = given.type[2]
        /\ ret.Suffix = given.dir[2]
        /\ ret.ZIP = given.zip

\* C9: for "<name> <type> & <name>[ <type>]" ParseIntersection returns an
\* intersection of the two streets, the second taking the type of the first
\* when it has none.
C9_AmpersandIntersection ==
    (pc = "returned" /\ given.kind = "ampersand") =>
        /\ ret # Nil
        /\ ret.Street1 = given.name
        /\ ret.Type1 = given.type[2]
        /\ ret.Street2 = given.name2
        /\ ret.Type2 = IF given.type2 = NoWord THEN given.type[2] ELSE given.type2[2]

\* C10: for "<name> <type> and <name> <type>, <city> <state>" ParseIntersection
\* returns the second name as Street2 with its type, the city and the state,
\* and nothing of the city or the state in Street2.
C10_TrailingLocality ==
    (pc = "returned" /\ given.kind = "locality") =>
        /\ ret # Nil
        /\ ret.Street2 = given.name2
        /\ ret.Type2 = given.type2[2]
        /\ ret.City = given.city
        /\ ret.State = given.state

\* the address a PO Box shape stands for
PoBoxExpected(g) ==
    [ EmptyAddress EXCEPT !.SecUnitType = POBOX, !.SecUnitNum = g.number, !.City = g.city,
                          !.State = g.state, !.ZIP = g.zip ]

\* C11: for an input "<PO Box marker> <digits> <city> <state> <zip5>"
\* ParsePoAddress returns SecUnitType "PO Box", SecUnitNum the digits, the
\* city, the state and the ZIP, every street field (and Plus4) empty, and
\* ParseLocation returns that address with the type "po_box".
C11_PoBoxDecomposition ==
    (given.kind = "po_box" /\ pc = "done") =>
        /\ err = NoError
        /\ sanitized = input
        /\ tried = << [ fn |-> "ParsePoAddress", ret |-> PoBoxExpected(given) ] >>
        /\ result = ParseResult("po_box", PoBoxExpected(given), Nil)

\* ParseLocation("PO Box 5678 New York NY 10001") has returned a "po_box"
C11_Witness ==
    /\ pc = "done"
    /\ given.kind = "po_box"
    /\ input = <<"P", "O", " ", "B", "o", "x", " ", "5", "6", "7", "8", " ", "N", "e", "w", " ",
                 "Y", "o", "r", "k", " ", "N", "Y", " ", "1", "0", "0", "0", "1">>
    /\ result # Nil
    /\ result.Type = "po_box"
    /\ result.Address.SecUnitNum = <<"5", "6", "7", "8">>
    /\ result.Address.City = <<"N", "e", "w", " ", "Y", "o", "r", "k">>

\* C12: Normalize applied to the value Normalize left gives the same eleven
\* fields again.
C12_NormalizeIdempotent ==
    (given.fn = "Normalize" /\ Len(tried) = 2) => tried[2].ret = tried[1].ret

\* each word begins with no lower-case letter and goes on with no upper-case
\* letter, and the words are separated by single spaces
TitleCased(s) ==
    /\ s = Join(Fields(s), << " " >>)
    /\ \A k \in 1..Len(Fields(s)) :
          LET w == Fields(s)[k]
          IN  w[1] \notin LowerSet /\ \A i \in 2..Len(w) : w[i] \notin UpperSet

\* without leading or trailing whitespace
Trimmed(s) == s = TrimSpace(s)

\* empty, or two upper-case letters
StateCode(s) == s = EmptyString \/ (Len(s) = 2 /\ s[1] \in UpperSet /\ s[2] \in UpperSet)

\* C13: in every ParsedAddress ParseLocation returns (type "address" or
\* "po_box") the street and the city are title-cased, the state is empty or two
\* upper-case letters, and no field begins or ends with whitespace.
C13_NormalizedResults ==
    (pc = "done" /\ result # Nil /\ result.Type \in { "address", "po_box" }) =>
        /\ TitleCased(result.Address.Street)
        /\ TitleCased(result.Address.City)
        /\ StateCode(result.Address.State)
        /\ \A f \in DOMAIN result.Address : Trimmed(result.Address[f])

\* no byte of s is whitespace or NUL
Solid(s) == \A i \in 1..Len(s) : ~IsSpace(s[i]) /\ s[i] # NUL

\* C14: the output of SanitizeInput has no NUL byte, no whitespace but single
\* spaces between tokens, no leading or trailing whitespace and at most
\* MaxAddressLength bytes; an input of more than MaxAddressLength bytes, none
\* of them whitespace, is cut to its first MaxAddressLength bytes.
C14_SanitizePostcondition ==
    (given.fn = "SanitizeInput" /\ pc = "returned") =>
        /\ ~HasNul(sanitized)
        /\ \A i \in 1..Len(sanitized) : IsSpace(sanitized[i]) => sanitized[i] = " "
        /\ \A i \in 1..(Len(sanitized) - 1) : ~(sanitized[i] = " " /\ sanitized[i + 1] = " ")
        /\ Trimmed(sanitized)
        /\ Len(sanitized) <= MaxAddressLength
        /\ (Len(input) > MaxAddressLength /\ Solid(input))
              => sanitized = SubSeq(input, 1, MaxAddressLength)

\* the locals of goroutine g's call
CallOf(g) == IF g = running THEN Locals ELSE calls[g]

\* C15: with several goroutines calling ParseLocation on one Parser, in every
\* interleaving of their steps the Parser's fields stay as NewParser left them
\* and every call that has returned has returned what ParseLocation returns
\* for its argument alone.
C15_ConcurrentCalls ==
    /\ parser = NewParser
    /\ parser.initialized
    /\ \A g \in Goroutines :
          /\ CallOf(g).pc \in { "start", "intersection", "po_box", "standard", "informal", "done" }
          /\ CallOf(g).pc = "done" =>
                << CallOf(g).result, CallOf(g).err >> = ParseLocation(CallOf(g).input)

\* a goroutine's call has returned an intersection while the call of another,
\* on a different address, is suspended in the middle of the cascade
C15_Witness ==
    /\ given = ConcurrentShape
    /\ running = 2
    /\ pc = "done"
    /\ result # Nil
    /\ result.Type = "intersection"
    /\ calls[1].pc = "standard"
    /\ calls[1].input # input

Blank(s) == \A i \in 1..Len(s) : IsSpace(s[i])

\* C16: for a valid input ParseLocation returns the type "none" exactly when
\* the input is whitespace only, which is when nothing is left after
\* sanitization; and whenever the informal decomposer is called on a text that
\* is not empty it returns an address that is not empty.
C16_NonEmptyResult ==
    /\ (pc = "done" /\ err = NoError) =>
          /\ result # Nil
          /\ result.Type = "none" <=> sanitized = EmptyString
          /\ sanitized = EmptyString <=> Blank(input)
          /\ result.Type = "none" => (result.Address = Nil /\ result.Intersection = Nil)
    /\ \A k \in 1..Len(tried) :
          (tried[k].fn = "ParseInformalAddress" /\ sanitized # EmptyString) =>
              (tried[k].ret # Nil /\ tried[k].ret # Panic /\ ~IsEmpty(tried[k].ret))

\* the earlier decomposers found nothing in a text, and the informal one
\* returned it as the street
C16_Witness ==
    /\ pc = "done"
    /\ given = Raw
    /\ ~Blank(input)
    /\ Attempted("ParseInformalAddress")
    /\ result # Nil
    /\ result.Type = "address"
    /\ result.Address.Street = sanitized

\* the handler sent the address of the request to ParseLocation
Located == pc = "responded" /\ input # EmptyString /\ Direct(given.kind) = ""

\* C17: the cap on the length of a parsed address is the configured
\* Security.MaxInputLength: a longer address is refused with ErrInputTooLong,
\* and no address within the cap is refused for its length.
C17_ConfiguredCap ==
    Located =>
        /\ Len(input) > config.cfg.Security.MaxInputLength
              => (response.status = 400 /\ err.kind = "ErrInputTooLong")
        /\ Len(input) <= config.cfg.Security.MaxInputLength
              => err.kind # "ErrInputTooLong"

\* the variant the type tag of a result names is there
VariantPresent(r) ==
    /\ r.Type \in { "address", "po_box" } => r.Address # Nil
    /\ r.Type = "intersection" => r.Intersection # Nil

\* C18: for every request with an address, of whatever type, a decomposer
\* runs only on the sanitized string of an address that passed the validation,
\* an address that fails the validation is answered 400 with success false,
\* and a 200 answer carries the variant its type tag names.
C18_ValidatedRequests ==
    (pc = "responded" /\ input # EmptyString) =>
        /\ \A k \in 1..Len(tried) :
              ValidateInput(input) = NoError /\ tried[k].arg = SanitizeInput(input)
        /\ ValidateInput(input) # NoError
              => (response.status = 400 /\ ~response.body.Success)
        /\ response.status = 200 => VariantPresent(response.body.Result)

\* C19: the message of an error of ValidateInput / ParseLocation is the same
\* for every input that gives an error of that kind.
C19_StableMessages ==
    (pc = "done" /\ err # NoError) =>
        \A other \in GuardInputs :
            ValidateInput(other).kind = err.kind => ValidateInput(other).text = err.text

\* the Config c breaks one of the five rules
Refusable(c) ==
    \/ c.Server.Port \notin 1..65535
    \/ c.Server.ReadTimeout <= 0
    \/ c.Server.WriteTimeout <= 0
    \/ c.Security.MaxInputLength \notin 100..100000
    \/ c.Logging.Level \notin { <<"d", "e", "b", "u", "g">>, <<"i", "n", "f", "o">>,
                                 <<"w", "a", "r", "n">>, <<"e", "r", "r", "o", "r">> }

\* C20: Config.Validate returns an error exactly when the port is outside
\* 1..65535, or a timeout is not positive, or Security.MaxInputLength is
\* outside 100..100000, or the log level is not debug, info, warn or error;
\* Load returns the Config and no error when Validate accepts it, and no
\* Config and an error otherwise (and main then stops).
C20_ConfigValidation ==
    config # Nil =>
        /\ ValidateConfig(FromEnv(env)) # NoError <=> Refusable(FromEnv(env))
        /\ ~Refusable(FromEnv(env)) =>
              (config.cfg = FromEnv(env) /\ config.err = NoError /\ pc # "fatal")
        /\ Refusable(FromEnv(env)) =>
              (config.cfg = Nil /\ config.err # NoError /\ pc = "fatal")

\* Load has refused an environment whose only fault is an input length of 99
C20_Witness ==
    /\ pc = "fatal"
    /\ env = [ NoEnv EXCEPT !.SECURITY_MAX_INPUT_LENGTH = <<"9", "9">> ]
    /\ config # Nil
    /\ config.cfg = Nil
    /\ config.err # NoError

\* C21: on a comma-free input ParseAddress takes a token as the state only if
\* it is a two-letter entry of the state table among the last three tokens; a
\* street-type abbreviation of two letters ("St" in "123 Main St") is not
\* taken as the state and the tokens before it are not moved into the city:
\* "<number> <name> <type>" keeps its number, its name as street and its type,
\* and has no city and no state.
C21_StateFromTable ==
    (pc = "returned" /\ given.kind = "street") =>
        /\ ret.State = EmptyString
        /\ ret.City = EmptyString
        /\ ret.Number = given.number
        /\ ret.Street = given.name
        /\ ret.Type = given.type[2]

\* C22: ParseAddress consumes a leading directional as prefix and a trailing
\* directional as suffix independently: "[<number>] <directional> <name> <type>
\* <directional>" ("N Main St S") yields the first as prefix, the second as
\* suffix, the type and the name as street; a directional that is the only
\* word is the prefix and not also the suffix.
C22_PrefixAndSuffix ==
    (pc = "returned" /\ given.kind = "directionals") =>
        /\ ret.Prefix = given.dir[2]
        /\ ret.Suffix = given.dir2[2]
        /\ ret.Type = given.type[2]
        /\ ret.Street = given.name

\* the last word w is consumed as the street type
TakenAsType(w) == w[2] # EmptyString /\ w[2] # w[1]

\* the type a street has from its own last word
OwnType(w) == IF TakenAsType(w) THEN w[2] ELSE EmptyString

\* the street name: the last word stays in it unless it is consumed
StreetKept(name, w, word) == IF TakenAsType(w) THEN name ELSE Spaced(<< name, word >>)

\* the street type test of ParseAddress on "<number> <name> <last word>[, <city>, <state>]"
LastWordGuard ==
    (pc = "returned" /\ given.kind = "last_word") =>
        /\ ret.Type = OwnType(given.type)
        /\ ret.Street = StreetKept(given.name, given.type, given.type[3])
        /\ ret.Number = given.number
        /\ ret.City = given.city

\* C23 (as stated): in ParseAddress and in both halves of ParseIntersection
\* the last remaining token is consumed as the street type only if
\* NormalizeStreetType of it is non-empty and differs from the token as
\* written; a token equal to its canonical abbreviation ("st", "ave") stays as
\* the final word of the street name, with the type left empty.
C23_TypeGuard ==
    /\ LastWordGuard
    /\ (pc = "returned" /\ given.kind = "cross") =>
          /\ ret # Nil
          /\ ret.Street1 = StreetKept(given.name, given.type, given.type[1])
          /\ ret.Street2 = StreetKept(given.name2, given.type2, given.type2[1])
          /\ ret.Type1 = OwnType(given.type)
          /\ ret.Type2 = OwnType(given.type2)

\* C23 (amended): as stated, except that in ParseIntersection a street whose
\* last token is not consumed has the type of the other street, which is empty
\* only if the other street has no type of its own.
C23_TypeGuardThenCommonType ==
    /\ LastWordGuard
    /\ (pc = "returned" /\ given.kind = "cross") =>
          /\ ret # Nil
          /\ ret.Street1 = StreetKept(given.name, given.type, given.type[1])
          /\ ret.Street2 = StreetKept(given.name2, given.type2, given.type2[1])
          /\ ret.Type1 = IF TakenAsType(given.type) THEN given.type[2] ELSE OwnType(given.type2)
          /\ ret.Type2 = IF TakenAsType(given.type2) THEN given.type2[2] ELSE OwnType(given.type)

\* ParseIntersection returned for "Main st and Oak St": "st" stays in the first
\* street, whose type is the one of the second
C23_Witness ==
    /\ pc = "returned"
    /\ given.kind = "cross"
    /\ input = <<"M", "a", "i", "n", " ", "s", "t", " ", "a", "n", "d", " ", "O", "a", "k", " ", "S", "t">>
    /\ ret.Street1 = <<"M", "a", "i", "n", " ", "s", "t">>
    /\ ret.Type1 = <<"s", "t">>
    /\ ret.Street2 = <<"O", "a", "k">>

\* the text ParseAddress has left when the ZIP, the state, the city and the
\* secondary unit are removed
Remainder(address) ==
    TrimSpace(AddressSecUnit(AddressStateCity(AddressZip(
        [ address |-> address, result |-> EmptyAddress, panic |-> FALSE ]))).address)

\* C24: when ParseAddress leaves both the number and the street empty,
\* ParseInformalAddress sets the street to the trimmed text that remains after
\* the ZIP, the state, the city and the secondary unit are removed, not to
\* text already captured in those fields, and changes no other field.
C24_InformalRemainder ==
    (pc = "returned" /\ given.kind = "informal"
       /\ ParseAddress(input).Number = EmptyString /\ ParseAddress(input).Street = EmptyString) =>
        ret = [ ParseAddress(input) EXCEPT !.Street = Remainder(input) ]

\* C25: when the text before or after the first intersection marker yields an
\* empty street name the intersection path declines, so ParseLocation never
\* returns the type "intersection" with Street1 or Street2 empty.
C25_IntersectionBothStreets ==
    (pc = "done" /\ result # Nil /\ result.Type = "intersection") =>
        /\ result.Intersection.Street1 # EmptyString
        /\ result.Intersection.Street2 # EmptyString

\* C26: in every non-nil ParsedIntersection returned by ParseIntersection
\* Type1 is empty if and only if Type2 is empty; a type found on one side only
\* is copied to the other side, and when both sides have a type of their own
\* neither is overwritten.
C26_TypeReconciliation ==
    (pc = "returned" /\ given.fn = "ParseIntersection" /\ ret # Nil) =>
        /\ ret.Type1 = EmptyString <=> ret.Type2 = EmptyString
        /\ given.kind = "cross" =>
              /\ (OwnType(given.type) # EmptyString /\ OwnType(given.type2) # EmptyString) =>
                    (ret.Type1 = OwnType(given.type) /\ ret.Type2 = OwnType(given.type2))
              /\ (OwnType(given.type) = EmptyString /\ OwnType(given.type2) # EmptyString) =>
                    (ret.Type1 = OwnType(given.type2) /\ ret.Type2 = OwnType(given.type2))
              /\ (OwnType(given.type) # EmptyString /\ OwnType(given.type2) = EmptyString) =>
                    (ret.Type1 = OwnType(given.type) /\ ret.Type2 = OwnType(given.type))
              /\ (OwnType(given.type) = EmptyString /\ OwnType(given.type2) = EmptyString) =>
                    (ret.Type1 = EmptyString /\ ret.Type2 = EmptyString)

\* ParseIntersection returned for "Main and Oak Avenue": the first street has
\* the type of the second
C26_Witness ==
    /\ pc = "returned"
    /\ given.kind = "cross"
    /\ input = <<"M", "a", "i", "n", " ", "a", "n", "d", " ", "O", "a", "k", " ", "A", "v", "e", "n", "u", "e">>
    /\ ret # Nil
    /\ ret.Street1 = <<"M", "a", "i", "n">>
    /\ ret.Type1 = <<"a", "v", "e">>
    /\ ret.Type2 = <<"a", "v", "e">>

\* the string s without the span of the match m
Without(s, m) == Slice(s, 1, m.start - 1) \o Slice(s, m.end, Len(s))

\* C27: ParseAddress captures the first word-bounded run of five digits, with
\* its optional four-digit extension, as ZIP and Plus4 and removes only that
\* span from the working string: every other part, another run of five digits
\* such as a street number included, is left for the later steps.
C27_ZipFrame ==
    (pc = "returned" /\ given.fn = "ParseAddress" /\ MatchString(ZipMatches(input))) =>
        /\ ret.ZIP = Find(ZipMatches(input)).groups[1]
        /\ ret.Plus4 = Find(ZipMatches(input)).groups[2]
        /\ AddressZip([ address |-> input, result |-> EmptyAddress, panic |-> FALSE ]).address
             = Without(input, Find(ZipMatches(input)))

\* C28: after the marker and the ZIP are removed ParsePoAddress finds the
\* state by the rule of the standard path (a two-letter token of the state
\* table in the trailing comma segment, or among the last three tokens),
\* removes only that token and takes the rest as the city: "PO Box 12 St Louis
\* MO 63101" yields the state "MO" and the city "St Louis".
C28_PoBoxStateAndCity ==
    (given.kind = "po_box_words" /\ pc = "done") =>
        /\ result # Nil
        /\ result.Type = "po_box"
        /\ result.Address.SecUnitNum = given.number
        /\ result.Address.ZIP = given.zip
        /\ result.Address.State = given.state
        /\ result.Address.City = given.city

\* C29: ParseAddress sets the secondary unit only when a unit keyword is a
\* complete token followed by a separate alphanumeric token, or basement,
\* front or rear stands alone; a street word that merely begins with a keyword
\* is not split into a unit type and number and stays in the street: "<number>
\* <name> <type>[ <unit>[ <unit number>]]" yields the unit as written, or none,
\* and the name as street.
C29_UnitWholeWords ==
    (pc = "returned" /\ given.kind = "unit") =>
        /\ ret.SecUnitType = given.unit[1]
        /\ ret.SecUnitNum = given.unit[2]
        /\ ret.Number = given.number
        /\ ret.Street = given.name
        /\ ret.Type = given.type[2]

\* the eleven fields of a ParsedAddress
FieldsOf(r) ==
    << r.Number, r.Prefix, r.Street, r.Type, r.Suffix, r.SecUnitType, r.SecUnitNum,
       r.City, r.State, r.ZIP, r.Plus4 >>

\* the token is a word of the field, whatever the case
WordOf(token, field) ==
    \E k \in 1..Len(Fields(field)) : ToLower(Fields(field)[k]) = ToLower(token)

\* the token appears in a field of r, or is normalized into one
Accounted(token, r) ==
    \/ \E k \in 1..11 : WordOf(token, FieldsOf(r)[k])
    \/ NormalizeDirectional(token) # EmptyString
          /\ NormalizeDirectional(token) \in { r.Prefix, r.Suffix }
    \/ NormalizeStreetType(token) # EmptyString /\ NormalizeStreetType(token) = r.Type
    \/ NormalizeState(token) # EmptyString /\ NormalizeState(token) = r.State

CommaFree(s) == \A k \in 1..Len(s) : s[k] # ","

\* C30: for a comma-free input every whitespace-delimited token is accounted
\* for in the ParsedAddress that ParseAddress returns: it appears in, or is
\* normalized into, one of the eleven fields; tokens after the state token are
\* not discarded.
C30_NoTokenLost ==
    (pc = "returned" /\ given.fn = "ParseAddress" /\ CommaFree(input)) =>
        \A k \in 1..Len(Fields(input)) : Accounted(Fields(input)[k], ret)

====
